---- MODULE Spec2Model ----
(***************************************************************************)
(* State-machine model of hybrid/clustering.py: the Clustering object      *)
(* (feature matrix, cluster-count search, boundary assignment, annual       *)
(* array reconstruction) and the AffinityPropagation engine it drives.      *)
(*                                                                         *)
(* Numbers.  Every real number of the engine (S, A, R) is a pair <<m, e>>:  *)
(* m is the value in fixed point (Unit = 1.0) and e is the coefficient of   *)
(* the 1e-8 symmetry-breaking noise, which is ordered below every m.        *)
(* With damping 1/2 the fixed point is exact for MaxIter rounds.            *)
(* Cluster ids, group ids and exemplars keep Python's 0-based values;       *)
(* arrays are TLA+ sequences, so a[i] of the code is a[i+1] here.           *)
(***************************************************************************)
EXTENDS Integers, Sequences, FiniteSets, TLC

\* ---------------------------------------------------------------- bounds
MaxGroup == 3        \* largest n_group the model builds (n_group = 363 \div ndays)
MaxVal == 1          \* feature entries are drawn from 0..MaxVal
MaxIter == 6         \* Nmaxiter given to the engine
ConvIter == 3        \* afp_Nconverge given to the engine
SearchMaxIter == 3   \* afp_enforce_Ncluster_maxiter
MaxTarget == 2       \* n_cluster (the target) is drawn from 1..MaxTarget
MaxTol == 1          \* afp_enforce_Ncluster_tol is drawn from 0..MaxTol
MaxPasses == 2       \* clustering passes (public calls that cluster) per behaviour
MaxArrays == 2       \* exemplar-data arrays handed to the reconstruction
MaxHalf == 2         \* the two-halves scenario has up to 2 * MaxHalf groups
MaxRaw == 12         \* raw daily-metric cells are drawn from 0..MaxRaw (units of 1e-7)
MaxCells == 3        \* cells of a daily-metric table the model keeps

\* ------------------------------------------------------ program constants
NDaysYear == 365
Sentinel == -100000000
RandomSeed == 123

Unit == 4 ^ MaxIter
HalfUnit == 2 ^ MaxIter

\* ------------------------------------------------------------- variables
VARIABLES
    ndays,              \* self.ndays
    data,               \* self.data: n_group rows of features
    data_first,         \* self.data_first
    data_last,          \* self.data_last
    sim_hard_partitions,\* self.sim_hard_partitions
    afp_enforce_Ncluster,     \* self.afp_enforce_Ncluster
    n_cluster,                \* self.n_cluster, the target of the search
    afp_enforce_Ncluster_tol, \* self.afp_enforce_Ncluster_tol
    afp_preference_mult,\* self.afp_preference_mult, a fraction <<num, den>>
    afp_damping,        \* self.afp_damping in twentieths (10 = 0.5)
    clusters,           \* self.clusters: a dict, keys = DOMAIN clusters
    sim_start_days,     \* self.sim_start_days
    index_first,        \* self.index_first
    index_last,         \* self.index_last
    srch,               \* the locals of create_clusters' search loop
    rng,                \* numpy's global generator: [seed, pos]
    alg,                \* the AffinityPropagation object and fit_predict's locals
    call,               \* the public method that is running, or "none"
    pc,                 \* position inside the running call
    err,                \* exception that ended the most recent call, or "none"
    passes,             \* clustering passes started so far
    lastpass,           \* the most recent clustering call that ended, and how
    fits,               \* what the last two runs of fit_predict were given and returned
    annual,             \* the reconstruction call that has just returned, if any
    raw_metric,         \* daily_metrics[key] before it is normalized (units of 1e-7)
    daily_metrics,      \* daily_metrics[key] after line 307, entries <<num, den>>
    use_default_weights,\* self.use_default_weights
    weights,            \* self.weights: key -> weight in eighths
    divisions,          \* self.divisions: key -> divisions per day
    daily_avg_dni,      \* self.daily_avg_dni: a list or a scalar
    schedule            \* the windows the last get_*_start_end_times calls returned

inputs == <<ndays, data, data_first, data_last, sim_hard_partitions,
            afp_enforce_Ncluster, n_cluster, afp_enforce_Ncluster_tol>>
settings == <<use_default_weights, weights, divisions>>
metrics == <<raw_metric, daily_metrics, settings, daily_avg_dni>>
config == <<inputs, metrics, schedule>>
derived == <<sim_start_days, index_first, index_last>>
obj == <<afp_preference_mult, afp_damping, clusters, derived>>
vars == <<config, obj, srch, rng, alg, call, pc, err, passes, lastpass, fits, annual>>

\* ------------------------------------------------------------ arithmetic
RECURSIVE SumRange(_, _, _)
SumRange(f, lo, hi) ==
    IF lo > hi THEN 0
    ELSE IF lo = hi THEN f[lo]
    ELSE LET mid == (lo + hi) \div 2
         IN SumRange(f, lo, mid) + SumRange(f, mid + 1, hi)
\* f[1] + ... + f[n]
SumF(f, n) == SumRange(f, 1, n)

Abs(x) == IF x < 0 THEN 0 - x ELSE x

\* floor(x * n / d) without forming x * n
MulDiv(x, n, d) == (x \div d) * n + ((x % d) * n) \div d

\* a row or matrix built by a function constructor, evaluated once as a tuple
Row(f) == f \o <<>>

Zero == <<0, 0>>
Add(a, b) == <<a[1] + b[1], a[2] + b[2]>>
Sub(a, b) == <<a[1] - b[1], a[2] - b[2]>>
Neg(a) == <<0 - a[1], 0 - a[2]>>
Less(a, b) == a[1] < b[1] \/ (a[1] = b[1] /\ a[2] < b[2])

\* damping * old + (1 - damping) * new, damping = d20 / 20
Damp(old, new, d20) ==
    <<MulDiv(old[1], d20, 20) + MulDiv(new[1], 20 - d20, 20),
      MulDiv(old[2], d20, 20) + MulDiv(new[2], 20 - d20, 20)>>

\* numpy argmax / argmin over the columns cols of a row: the first extremum
ArgMax(row, cols) ==
    CHOOSE k \in cols : \A j \in cols :
        /\ ~Less(row[k], row[j])
        /\ (j < k => Less(row[j], row[k]))
ArgMin(row, cols) ==
    CHOOSE k \in cols : \A j \in cols :
        /\ ~Less(row[j], row[k])
        /\ (j < k => Less(row[k], row[j]))

\* ------------------------------------------------------- random generator
\* numpy.random.random_sample after numpy.random.seed(123), as floor(64 u) - 32
Seed123 == <<12, -14, -18, 3, 14, -5, 30, 11, -2, -7, -11, 14, -4, -29, -7, 15,
             -21, -21, 2, 2, 8, 22, 14, 7, 14, -12, -9, -18, -14, 8, -27, -5,
             -5, -1, -5, -13>>
\* sample number pos (0-based) of the stream of a generator seeded with seed
RandomSample(seed, pos) ==
    IF seed = RandomSeed /\ pos < Len(Seed123) THEN Seed123[pos + 1]
    ELSE (((seed + 1) * (pos + 3) * 37) % 64) - 32

\* ------------------------------------------------- AffinityPropagation
n_group == Len(data)
Groups == 1..n_group

Dist2(a, b) == SumF([f \in 1..Len(a) |-> (a[f] - b[f]) * (a[f] - b[f])], Len(a))

\* -((data[p, :] - data[:, :]) ** 2).sum(1) for every p, in fixed point
Similarity(d) ==
    Row([p \in 1..Len(d) |-> Row([j \in 1..Len(d) |-> (0 - Dist2(d[p], d[j])) * Unit])])

\* numpy.median of all entries of a square matrix
KthSmallest(M, k) ==
    LET n == Len(M)
        vals == {M[i][j] : i \in 1..n, j \in 1..n}
        below(x) == Cardinality({ij \in (1..n) \X (1..n) : M[ij[1]][ij[2]] < x})
        upto(x) == Cardinality({ij \in (1..n) \X (1..n) : M[ij[1]][ij[2]] <= x})
    IN CHOOSE x \in vals : below(x) < k /\ upto(x) >= k
Median(M) ==
    LET N == Len(M) * Len(M)
    IN IF N % 2 = 1 THEN KthSmallest(M, (N + 1) \div 2)
       ELSE (KthSmallest(M, N \div 2) + KthSmallest(M, N \div 2 + 1)) \div 2

\* Python's None; a given preference p is <<p>>
None == <<>>

\* S with the preference on the diagonal, lines 674-685
WithPreference(S0, preference) ==
    LET pref == IF preference # None /\ preference[1] # 0 THEN preference[1]
                ELSE Median(S0)
    IN Row([i \in 1..Len(S0) |->
           Row([j \in 1..Len(S0) |-> IF i = j THEN pref ELSE S0[i][j]])])

\* S += 1.e-8*mag * S * (random_sample((n_obs, n_obs)) - 0.5), lines 687-689
Perturbed(S1, seed, pos) ==
    LET n == Len(S1)
        mag == CHOOSE x \in {Abs(S1[i][j]) : i \in 1..n, j \in 1..n} :
                   \A i \in 1..n, j \in 1..n : x <= Abs(S1[i][j])
        u(i, j) == RandomSample(seed, pos + (i - 1) * n + (j - 1))
    IN Row([i \in 1..n |-> Row([j \in 1..n |->
           <<S1[i][j],
             ((mag \div HalfUnit) * (S1[i][j] \div HalfUnit) * u(i, j)) \div HalfUnit>>])])

\* a responsibility update that subtracts the row maximum in every column
ResponsibilityRowMax(S, A, R, d20) ==
    LET n == Len(S)
        M == Row([i \in 1..n |-> Row([j \in 1..n |-> Add(A[i][j], S[i][j])])])
        k == Row([i \in 1..n |-> ArgMax(M[i], 1..n)])
    IN Row([i \in 1..n |-> Row([j \in 1..n |->
           Damp(R[i][j], Sub(S[i][j], M[i][k[i]]), d20)])])

\* one responsibility update, lines 702-711
Responsibility(S, A, R, d20) ==
    LET n == Len(S)
        M == Row([i \in 1..n |-> Row([j \in 1..n |-> Add(A[i][j], S[i][j])])])
        k == Row([i \in 1..n |-> ArgMax(M[i], 1..n)])
        k2 == Row([i \in 1..n |-> ArgMax(M[i], (1..n) \ {k[i]})])
        update == Row([i \in 1..n |-> Row([j \in 1..n |->
                      IF j = k[i] THEN Sub(S[i][j], M[i][k2[i]])
                      ELSE Sub(S[i][j], M[i][k[i]])])])
    IN Row([i \in 1..n |-> Row([j \in 1..n |-> Damp(R[i][j], update[i][j], d20)])])

\* an availability update that leaves positive off-diagonal entries as they are
AvailabilityNoClip(A, R, d20) ==
    LET n == Len(R)
        posR == Row([i \in 1..n |-> Row([j \in 1..n |->
                    IF Less(R[i][j], Zero) THEN Zero ELSE R[i][j]])])
        sumR == Row([j \in 1..n |->
                    <<SumF([i \in 1..n |-> posR[i][j][1]], n),
                      SumF([i \in 1..n |-> posR[i][j][2]], n)>>])
        values == Row([j \in 1..n |-> Sub(sumR[j], posR[j][j])])
    IN Row([i \in 1..n |-> Row([j \in 1..n |->
           Damp(A[i][j],
                IF i = j THEN values[i]
                ELSE Add(Sub(values[j], posR[i][j]), R[j][j]), d20)])])

\* one availability update, lines 713-723
Availability(A, R, d20) ==
    LET n == Len(R)
        posR == Row([i \in 1..n |-> Row([j \in 1..n |->
                    IF Less(R[i][j], Zero) THEN Zero ELSE R[i][j]])])
        sumR == Row([j \in 1..n |->
                    <<SumF([i \in 1..n |-> posR[i][j][1]], n),
                      SumF([i \in 1..n |-> posR[i][j][2]], n)>>])
        values == Row([j \in 1..n |-> Sub(sumR[j], posR[j][j])])
        raw == Row([i \in 1..n |-> Row([j \in 1..n |->
                    Add(Sub(values[j], posR[i][j]), R[j][j])])])
        update == Row([i \in 1..n |-> Row([j \in 1..n |->
                    IF i = j THEN values[i]
                    ELSE IF Less(Zero, raw[i][j]) THEN Zero ELSE raw[i][j]])])
    IN Row([i \in 1..n |-> Row([j \in 1..n |-> Damp(A[i][j], update[i][j], d20)])])

\* exemplars = (np.diag(A) + np.diag(R)) > 0, line 726
Exemplars(A, R) == Row([i \in 1..Len(A) |-> Less(Zero, Add(A[i][i], R[i][i]))])

\* exemplars = np.where(exemplars == True)[0]: ascending 0-based indices
RECURSIVE Where(_, _)
Where(flags, i) ==
    IF i > Len(flags) THEN <<>>
    ELSE IF flags[i] THEN <<i - 1>> \o Where(flags, i + 1)
    ELSE Where(flags, i + 1)

\* S[inds, inds] = 0.0; S = -S, lines 744-745
Distance(S) ==
    Row([i \in 1..Len(S) |->
        Row([j \in 1..Len(S) |-> IF i = j THEN Zero ELSE Neg(S[i][j])])])

\* S[:, exemplars].argmin(1), lines 746 and 759
Nearest(D, exemplars) ==
    Row([i \in 1..Len(D) |->
        ArgMin(Row([k \in 1..Len(exemplars) |-> D[i][exemplars[k] + 1]]),
               1..Len(exemplars)) - 1])

\* the members of cluster k, ascending (np.where(clusters == k)[0])
Members(assign, k) == Where([i \in DOMAIN assign |-> assign[i] = k], 1)

\* a replacement that takes the member with the greatest total distance
MedoidFarthest(D, pts) ==
    LET dist_sum == Row([p \in 1..Len(pts) |->
            <<SumF([j \in 1..Len(pts) |-> D[pts[p] + 1][pts[j] + 1][1]], Len(pts)),
              SumF([j \in 1..Len(pts) |-> D[pts[p] + 1][pts[j] + 1][2]], Len(pts))>>])
    IN pts[ArgMax(dist_sum, 1..Len(pts))]

\* lines 747-756: the member with the least total distance to the members
Medoid(D, pts) ==
    LET dist_sum == Row([p \in 1..Len(pts) |->
            <<SumF([j \in 1..Len(pts) |-> D[pts[p] + 1][pts[j] + 1][1]], Len(pts)),
              SumF([j \in 1..Len(pts) |-> D[pts[p] + 1][pts[j] + 1][2]], Len(pts))>>])
    IN pts[ArgMin(dist_sum, 1..Len(pts))]
Refined(D, exemplars, assign) ==
    Row([k \in 1..Len(exemplars) |->
        LET pts == Members(assign, k - 1)
        IN IF Len(pts) > 2 THEN Medoid(D, pts) ELSE exemplars[k]])

\* compute_wcss, lines 663-669 (data units, not fixed point)
compute_wcss(d, cluster_index, means) ==
    SumF([k \in 1..Len(means) |->
            SumF([i \in 1..Len(d) |->
                    IF cluster_index[i] = k - 1 THEN Dist2(d[i], means[k]) ELSE 0],
                 Len(d))],
         Len(means))

\* the loop condition of fit_predict, line 698
Looping(a) == a.q < a.max_iter /\ a.count < a.convergence_iter

\* what fit_predict leaves in the object, lines 735-768 (needs an exemplar)
FitResult(a, d) ==
    LET raw == Where(a.exemplars, 1)
        D == Distance(a.S)
        exemplars == Refined(D, raw, Nearest(D, raw))
        cluster_index == Nearest(D, exemplars)
        means == Row([k \in 1..Len(exemplars) |-> d[exemplars[k] + 1]])
    IN [n_clusters |-> Len(raw),
        cluster_means |-> means,
        cluster_index |-> cluster_index,
        wcss |-> compute_wcss(d, cluster_index, means),
        exemplars |-> exemplars,
        converged |-> ~(a.count < a.convergence_iter /\ a.q >= a.max_iter)]

\* WCSS of the assignment to the nearest raw exemplar (line 746), before the
\* exemplars are replaced
RawWcss(a, d) ==
    LET raw == Where(a.exemplars, 1)
        D == Distance(a.S)
    IN compute_wcss(d, Nearest(D, raw), Row([k \in 1..Len(raw) |-> d[raw[k] + 1]]))

\* ----------------------------------------------------------- Clustering
EmptyDict == [key \in {} |-> 0]
NoAlg == [active |-> FALSE]
NoSearch == [active |-> FALSE]

\* the two ndays at the ends of the range that gives n groups
NdaysFor(n) == {(NDaysYear - 2) \div (n + 1) + 1, (NDaysYear - 2) \div n}

\* pref handed to the engine, lines 456-462
Preference(d, mult) ==
    IF mult[1] = mult[2] THEN None
    ELSE <<MulDiv(Median(Similarity(d)), mult[1], mult[2])>>

\* a run that draws from the generator as it finds it
ReseedSkipped(generator) == generator

\* np.random.seed(self.random_seed), line 687
Reseed(generator) == [seed |-> RandomSeed, pos |-> 0]

\* lines 464-465 up to the loop: the engine before its first round
NewAlg(d, damping, mult, generator) ==
    LET n == Len(d)
        preference == Preference(d, mult)
        seeded == Reseed(generator)
    IN [active |-> TRUE, rng_before |-> generator,
        damping |-> damping, max_iter |-> MaxIter, convergence_iter |-> ConvIter,
        preference |-> preference,
        S |-> Perturbed(WithPreference(Similarity(d), preference),
                       seeded.seed, seeded.pos),
        A |-> [i \in 1..n |-> [j \in 1..n |-> Zero]],
        R |-> [i \in 1..n |-> [j \in 1..n |-> Zero]],
        exemplars |-> [i \in 1..n |-> FALSE],
        q |-> 0, count |-> 0]

\* a pass of the loop that counts every round as a stable one
RoundCountsUp(a) ==
    LET R == Responsibility(a.S, a.A, a.R, a.damping)
        A == Availability(a.A, R, a.damping)
    IN [a EXCEPT !.R = R, !.A = A, !.exemplars = Exemplars(A, R),
                 !.count = a.count + 1, !.q = a.q + 1]

\* one pass of the while loop, lines 698-733
Round(a) ==
    LET R == Responsibility(a.S, a.A, a.R, a.damping)
        A == Availability(a.A, R, a.damping)
        exemplars == Exemplars(A, R)
    IN [a EXCEPT !.R = R, !.A = A, !.exemplars = exemplars,
                 !.count = IF exemplars = a.exemplars THEN a.count + 1 ELSE 0,
                 !.q = a.q + 1]

\* lines 466-494: the dict form_clusters_using_current_parameters builds
ClusterDict(fit, n) ==
    LET nc == fit.n_clusters
        pm == [g \in 1..n |-> [k \in 1..nc |->
                  IF fit.cluster_index[g] = k - 1 THEN 1 ELSE 0]]
    IN [index |-> fit.cluster_index,
        n_cluster |-> nc,
        means |-> fit.cluster_means,
        wcss |-> fit.wcss,
        exemplars |-> fit.exemplars,
        converged |-> fit.converged,
        count |-> [k \in 1..nc |->
                      Cardinality({g \in 1..n : fit.cluster_index[g] = k - 1})],
        partition_matrix |-> pm,
        weights |-> [k \in 1..nc |-> <<SumF([g \in 1..n |-> pm[g][k]], n), n>>]]


NoPass == [call |-> "none", err |-> "none", accepted |-> FALSE]
NoAnnual == [active |-> FALSE]

\* no schedule window and no initial charge state has been asked for
NoSchedule == [sim |-> <<>>, soln |-> <<>>, soc |-> [fn |-> "none"]]

\* the object right after __init__ and the feature calculation, for a feature
\* matrix drawn from matrices; ndays is chosen by the caller
InitObject(matrices) ==
    /\ data \in matrices
    /\ \E v \in 0..MaxVal :
        /\ data_last = <<v, Sentinel>>
        /\ data_first = <<Sentinel, IF Len(data) >= 2 THEN data[2][1] ELSE v>>
    /\ sim_hard_partitions \in BOOLEAN
    /\ afp_enforce_Ncluster \in BOOLEAN
    /\ n_cluster \in 1..MaxTarget
    /\ afp_enforce_Ncluster_tol \in 0..MaxTol
    /\ ~afp_enforce_Ncluster => n_cluster = MaxTarget /\ afp_enforce_Ncluster_tol = 0
    /\ ~sim_hard_partitions => ~afp_enforce_Ncluster
    /\ afp_preference_mult = <<1, 1>>
    /\ clusters = EmptyDict
    /\ sim_start_days = <<>>
    /\ index_first = -1
    /\ index_last = -1
    /\ srch = NoSearch
    /\ rng = [seed |-> 0, pos |-> 0]
    /\ alg = NoAlg
    /\ call = "none"
    /\ pc = "idle"
    /\ err = "none"
    /\ passes = 0
    /\ lastpass = NoPass
    /\ fits = <<>>
    /\ annual = NoAnnual
    /\ schedule = NoSchedule

\* afp_damping as __init__ sets it, in twentieths
DefaultDamping == 10

\* the same, with ndays one of the ends of the range that gives Len(data) groups
InitWith(matrices) ==
    /\ InitObject(matrices)
    /\ ndays \in NdaysFor(Len(data))
    /\ afp_damping = DefaultDamping

AllData == UNION {[1..n -> [1..2 -> 0..MaxVal]] : n \in 1..MaxGroup}

\* the keys of get_default_weights the model keeps, lines 62-90
DefaultKeys == {"dni", "dni_prev", "dni_next", "price"}
\* get_default_weights for a tower with a battery: 1.0, 0.5, 0.5, 0.75
DefaultWeights ==
    [k \in DefaultKeys |-> IF k = "dni" THEN 8 ELSE IF k = "price" THEN 6 ELSE 4]
DefaultDivisions ==
    [k \in DefaultKeys |-> IF k \in {"dni", "price"} THEN 4 ELSE 2]

\* self.daily_avg_dni is the list of __init__ (line 51) until line 202
\* assigns the mean of one day to the attribute itself
NoDni == [kind |-> "list", items |-> <<>>]
ScalarDni(v) == [kind |-> "scalar", items |-> <<v>>]
\* daily mean DNI in kWh/m2/day, to both sides of the 6.0 of line 566
DniLevels == {5, 7}

\* calculate_metrics has run with the default weights, lines 177-179 and
\* 200-202
DefaultSettings ==
    /\ use_default_weights = TRUE
    /\ weights = DefaultWeights
    /\ divisions = DefaultDivisions
    /\ daily_avg_dni = ScalarDni(5)

\* no metric table is being built
NoMetrics == raw_metric = <<>> /\ daily_metrics = <<>> /\ DefaultSettings

Init == InitWith(AllData) /\ NoMetrics

\* ------------------------------------------------------------ exceptions
\* an exception leaves the running clustering call: its locals are gone,
\* self.* stays
Raise(e) ==
    /\ err' = e
    /\ pc' = "idle"
    /\ call' = "none"
    /\ lastpass' = [call |-> call, err |-> e, accepted |-> FALSE]
    /\ srch' = NoSearch
    /\ alg' = NoAlg

\* a clustering call returns to its caller
Return(c) ==
    /\ pc' = "idle"
    /\ call' = "none"
    /\ lastpass' = [call |-> c, err |-> "none",
                    accepted |-> srch.active /\ srch.finished]

\* ------------------------------------------------------------- fractions
RECURSIVE GCD(_, _)
GCD(a, b) == IF b = 0 THEN a ELSE GCD(b, a % b)
Frac(n, d) ==
    LET g == GCD(Abs(n), Abs(d))
        sgn == IF d < 0 THEN -1 ELSE 1
    IN <<sgn * (n \div g), sgn * (d \div g)>>
FracSub(a, b) == Frac(a[1] * b[2] - b[1] * a[2], a[2] * b[2])

\* -------------------------------------------- form_clusters_using_current_parameters
\* lines 440-465: with one group the dict is returned and never stored;
\* otherwise the engine is built and seeded, and fit_predict starts
EnterForm(caller, after, mult) ==
    IF n_group = 1
    THEN /\ IF after = "idle"
            THEN Return(caller)
            ELSE pc' = after /\ call' = caller /\ UNCHANGED lastpass
         /\ UNCHANGED <<alg, rng>>
    ELSE /\ alg' = NewAlg(data, afp_damping, mult, rng)
         /\ rng' = [Reseed(rng) EXCEPT !.pos = @ + n_group * n_group]
         /\ pc' = "fit"
         /\ call' = caller
         /\ UNCHANGED lastpass

\* a caller invokes form_clusters_using_current_parameters directly
FormClusters ==
    /\ pc = "idle"
    /\ passes < MaxPasses
    /\ passes' = passes + 1
    /\ EnterForm("form", "idle", afp_preference_mult)
    /\ err' = "none"
    /\ annual' = NoAnnual
    /\ UNCHANGED <<config, obj, srch, fits>>

FitRound ==
    /\ pc = "fit"
    /\ Looping(alg)
    /\ alg' = Round(alg)
    /\ UNCHANGED <<config, obj, srch, rng, call, pc, err, passes, lastpass, fits, annual>>

\* where control goes when form_clusters_using_current_parameters returns
AfterForm ==
    IF call = "form" THEN "idle"
    ELSE IF afp_enforce_Ncluster THEN "eval" ELSE "sort"

\* what a run of fit_predict was given and what it returned
FitRecord(a, d) ==
    LET fit == FitResult(a, d)
    IN [data |-> d, damping |-> a.damping, max_iter |-> a.max_iter,
        convergence_iter |-> a.convergence_iter, preference |-> a.preference,
        rng_before |-> a.rng_before,
        exemplars |-> fit.exemplars, n_clusters |-> fit.n_clusters,
        cluster_index |-> fit.cluster_index, wcss |-> fit.wcss,
        converged |-> fit.converged, raw_wcss |-> RawWcss(a, d)]

Remember(fit) == IF fits = <<>> THEN <<fit>> ELSE <<fits[Len(fits)], fit>>

\* the rest of fit_predict (lines 735-770) and of
\* form_clusters_using_current_parameters (lines 466-498)
FitFinish ==
    /\ pc = "fit"
    /\ ~Looping(alg)
    /\ IF \A i \in Groups : ~alg.exemplars[i]
       THEN \* S[:, exemplars].argmin(1) over no columns
            Raise("ValueError") /\ UNCHANGED <<clusters, fits>>
       ELSE /\ fits' = Remember(FitRecord(alg, data))
            /\ IF ~sim_hard_partitions
               THEN \* self.mfuzzy is never set
                    Raise("AttributeError") /\ UNCHANGED clusters
               ELSE /\ clusters' = ClusterDict(FitResult(alg, data), n_group)
                    /\ alg' = NoAlg
                    /\ IF AfterForm = "idle"
                       THEN Return(call)
                       ELSE pc' = AfterForm /\ UNCHANGED <<call, lastpass>>
                    /\ UNCHANGED <<err, srch>>
    /\ UNCHANGED <<config, afp_preference_mult, afp_damping, derived, rng, passes, annual>>

\* ------------------------------------------------------- create_clusters
\* lines 348-364
CreateClusters ==
    /\ pc = "idle"
    /\ passes < MaxPasses
    /\ passes' = passes + 1
    /\ err' = "none"
    /\ annual' = NoAnnual
    /\ IF ~afp_enforce_Ncluster
       THEN /\ EnterForm("create", "sort", afp_preference_mult)
            /\ UNCHANGED srch
       ELSE /\ srch' = [active |-> TRUE, mult |-> <<1, 1>>, mult_prev |-> <<1, 1>>,
                        Nc_prev |-> 0, i |-> 0, finished |-> FALSE,
                        damping_original |-> afp_damping]
            /\ pc' = "loop"
            /\ call' = "create"
            /\ UNCHANGED <<alg, rng, lastpass>>
    /\ UNCHANGED <<config, obj, fits>>

\* a loop test that forgets the budget
SearchContinuesUnbounded(r) == ~r.finished

\* line 366: while i < maxiter and not finished
SearchContinues(r) == r.i < SearchMaxIter /\ ~r.finished

\* line 366-368: the loop test, and the start of one attempt
SearchAttempt ==
    /\ pc = "loop"
    /\ SearchContinues(srch)
    /\ afp_preference_mult' = srch.mult
    /\ EnterForm("create", "eval", srch.mult)
    /\ UNCHANGED <<config, afp_damping, clusters, derived, srch, err, passes, fits, annual>>

\* lines 408-410: the loop is left
SearchExit ==
    /\ pc = "loop"
    /\ ~SearchContinues(srch)
    /\ IF ~srch.finished /\ "n_cluster" \notin DOMAIN clusters
       THEN Raise("KeyError")
       ELSE /\ pc' = "sort"
            /\ UNCHANGED <<alg, call, srch, err, lastpass>>
    /\ UNCHANGED <<config, obj, rng, passes, fits, annual>>

\* line 396 divides by mult - mult_prev
SecantDividesByZero(mult, mult_prev, Nc, Nc_prev) ==
    ~(Nc_prev = 0 \/ Nc = Nc_prev) /\ mult = mult_prev

\* a next multiplier that is always the proportional one
NextMultProportional(mult, mult_prev, Nc, Nc_prev, Ntarget) ==
    Frac(mult[1] * Nc, mult[2] * Ntarget)

\* a next multiplier whose ratio of cluster counts is an integer division
NextMultIntegerRatio(mult, mult_prev, Nc, Nc_prev, Ntarget) ==
    LET proportional == Frac(mult[1] * (Nc \div Ntarget), mult[2])
        diff == FracSub(mult, mult_prev)
        secant == FracSub(mult, Frac(17 * (Nc - Ntarget) * diff[1],
                                     20 * (Nc - Nc_prev) * diff[2]))
    IN IF Nc_prev = 0 \/ Nc = Nc_prev THEN proportional
       ELSE IF secant[1] <= 0 THEN proportional
       ELSE secant

\* lines 392-400: the next multiplier
NextMult(mult, mult_prev, Nc, Nc_prev, Ntarget) ==
    LET proportional == Frac(mult[1] * Nc, mult[2] * Ntarget)
        diff == FracSub(mult, mult_prev)
        secant == FracSub(mult, Frac(17 * (Nc - Ntarget) * diff[1],
                                     20 * (Nc - Nc_prev) * diff[2]))
    IN IF Nc_prev = 0 \/ Nc = Nc_prev THEN proportional
       ELSE IF secant[1] <= 0 THEN proportional
       ELSE secant

\* line 383: the attempt is close enough to the target
Accepted(Nc, Ntarget, tol) == Abs(Nc - Ntarget) <= tol

\* a raise of the damping without the cap
RaisedDampingUncapped(d20) == d20 + 1

\* lines 379-380: afp_damping += 0.05, at most 0.95
RaisedDamping(d20) == IF d20 + 1 < 19 THEN d20 + 1 ELSE 19

\* lines 369-406: what one attempt's result does to the search
SearchEval ==
    /\ pc = "eval"
    /\ IF "converged" \notin DOMAIN clusters
       THEN Raise("KeyError") /\ UNCHANGED afp_damping
       ELSE IF ~clusters.converged
       THEN /\ afp_damping' = RaisedDamping(afp_damping)
            /\ srch' = [srch EXCEPT !.i = @ + 1]
            /\ pc' = "loop"
            /\ UNCHANGED <<alg, call, err, lastpass>>
       ELSE LET Nc == clusters.n_cluster
                new == NextMult(srch.mult, srch.mult_prev, Nc, srch.Nc_prev, n_cluster)
            IN /\ afp_damping' = srch.damping_original
               /\ IF Accepted(Nc, n_cluster, afp_enforce_Ncluster_tol)
                  THEN /\ srch' = [srch EXCEPT !.finished = TRUE, !.i = @ + 1]
                       /\ pc' = "loop"
                       /\ UNCHANGED <<alg, call, err, lastpass>>
                  ELSE IF SecantDividesByZero(srch.mult, srch.mult_prev, Nc, srch.Nc_prev)
                  THEN Raise("ZeroDivisionError")
                  ELSE /\ srch' = [srch EXCEPT !.mult_prev = srch.mult, !.Nc_prev = Nc,
                                               !.mult = new, !.i = @ + 1]
                       /\ pc' = "loop"
                       /\ UNCHANGED <<alg, call, err, lastpass>>
    /\ UNCHANGED <<config, afp_preference_mult, clusters, derived, rng, passes, fits, annual>>

\* position of cluster k in ascending order of exemplar: inds.argsort()[k]
Rank(exemplars, k) ==
    Cardinality({j \in 1..Len(exemplars) :
                    \/ exemplars[j] < exemplars[k]
                    \/ (exemplars[j] = exemplars[k] /\ j < k)})
\* an order that leaves every cluster where it is
ArgSortIdentity(exemplars) == [i \in 1..Len(exemplars) |-> i]

\* exemplars.argsort(): inds[i] is the cluster that moves to position i
ArgSort(exemplars) ==
    [i \in 1..Len(exemplars) |->
        CHOOSE k \in 1..Len(exemplars) : Rank(exemplars, k) = i - 1]

\* lines 416-437: clusters_sorted; every key but n_cluster and wcss starts as
\* np.empty_like, and 'converged' is never filled: junk is what it holds
Sorted(c, junk) ==
    LET nc == c.n_cluster
        inds == ArgSort(c.exemplars)
    IN [key \in DOMAIN c |->
         CASE key \in {"n_cluster", "wcss"} -> c[key]
           [] key = "partition_matrix" ->
                [g \in DOMAIN c.partition_matrix |->
                    [i \in 1..nc |-> c.partition_matrix[g][inds[i]]]]
           [] key \in {"count", "weights", "exemplars", "means"} ->
                [i \in 1..nc |-> c[key][inds[i]]]
           [] key = "index" ->
                [g \in DOMAIN c.index |-> Rank(c.exemplars, c.index[g] + 1)]
           [] OTHER -> junk]

Sort ==
    /\ pc = "sort"
    /\ IF "n_cluster" \notin DOMAIN clusters
       THEN Raise("KeyError") /\ UNCHANGED clusters
       ELSE /\ \E junk \in BOOLEAN : clusters' = Sorted(clusters, junk)
            /\ Return(call)
            /\ srch' = NoSearch
            /\ UNCHANGED <<alg, err>>
    /\ UNCHANGED <<config, afp_preference_mult, afp_damping, derived, rng, passes, fits,
                   annual>>

\* ---------------------------------------------------------- set_sim_days
\* lines 500-502
SimStartDays(c, nd) == [k \in 1..Len(c.exemplars) |-> 1 + c.exemplars[k] * nd]

SetSimDays ==
    /\ pc = "idle"
    /\ IF "exemplars" \notin DOMAIN clusters
       THEN err' = "KeyError" /\ UNCHANGED sim_start_days
       ELSE sim_start_days' = SimStartDays(clusters, ndays) /\ err' = "none"
    /\ annual' = NoAnnual
    /\ UNCHANGED <<config, afp_preference_mult, afp_damping, clusters, index_first,
                   index_last, srch, rng, alg, call, pc, passes, lastpass, fits>>

\* ----------------------------------- adjust_weighting_for_incomplete_groups
\* lines 513-518: squared distance over the features defined for the boundary
BoundaryDist(boundary, mean) ==
    SumF([f \in 1..Len(boundary) |->
            IF boundary[f] > -1000000
            THEN (boundary[f] - mean[f]) * (boundary[f] - mean[f]) ELSE 0],
         Len(boundary))

\* an argmin that returns the last of several minima
NearestClusterLast(boundary, means) ==
    (CHOOSE k \in 1..Len(means) : \A j \in 1..Len(means) :
        /\ BoundaryDist(boundary, means[k]) <= BoundaryDist(boundary, means[j])
        /\ (j > k => BoundaryDist(boundary, means[j]) > BoundaryDist(boundary, means[k])))
    - 1

\* dist.argmin(), 0-based
NearestCluster(boundary, means) ==
    (CHOOSE k \in 1..Len(means) : \A j \in 1..Len(means) :
        /\ BoundaryDist(boundary, means[k]) <= BoundaryDist(boundary, means[j])
        /\ (j < k => BoundaryDist(boundary, means[j]) > BoundaryDist(boundary, means[k])))
    - 1

\* a recomputation whose second addition starts again from the column sums
WeightsAdjustedOverwrite(c, ngroup, nd, first, last) ==
    LET nfirst == 1
        nlast == NDaysYear - ngroup * nd - 1
        ngroup_adj == ngroup * nd + nfirst + nlast
        s0 == [k \in 1..c.n_cluster |->
                  nd * SumF([g \in 1..ngroup |-> c.partition_matrix[g][k]], ngroup)]
        s1 == [s0 EXCEPT ![first + 1] = @ + nfirst]
        s2 == [s1 EXCEPT ![last + 1] = s0[last + 1] + nlast]
    IN [k \in 1..c.n_cluster |-> <<s2[k], ngroup_adj>>]

\* lines 523-530: s / ngroup_adj as <<numerator, denominator>>, both times ndays
WeightsAdjusted(c, ngroup, nd, first, last) ==
    LET nfirst == 1
        nlast == NDaysYear - ngroup * nd - 1
        ngroup_adj == ngroup * nd + nfirst + nlast
        s0 == [k \in 1..c.n_cluster |->
                  nd * SumF([g \in 1..ngroup |-> c.partition_matrix[g][k]], ngroup)]
        s1 == [s0 EXCEPT ![first + 1] = @ + nfirst]
        s2 == [s1 EXCEPT ![last + 1] = @ + nlast]
    IN [k \in 1..c.n_cluster |-> <<s2[k], ngroup_adj>>]

AdjustWeighting ==
    /\ pc = "idle"
    /\ IF "n_cluster" \notin DOMAIN clusters
       THEN err' = "KeyError" /\ UNCHANGED <<clusters, index_first, index_last>>
       ELSE LET first == NearestCluster(data_first, clusters.means)
                last == NearestCluster(data_last, clusters.means)
                wa == WeightsAdjusted(clusters, n_group, ndays, first, last)
            IN /\ index_first' = first
               /\ index_last' = last
               /\ clusters' = [key \in DOMAIN clusters \cup {"weights_adjusted"} |->
                                 IF key = "weights_adjusted" THEN wa ELSE clusters[key]]
               /\ err' = "none"
    /\ annual' = NoAnnual
    /\ UNCHANGED <<config, afp_preference_mult, afp_damping, sim_start_days, srch, rng,
                   alg, call, pc, passes, lastpass, fits>>

\* ------------------------- compute_annual_array_from_cluster_exemplar_data
\* A year is NDaysYear day blocks; the hours of a day are treated alike by
\* every statement of the method, so a block stands for its hours.  Values are
\* kept in fifths, the division by navg = 5 being the only one.
Navg == 5

\* caller's arrays: day -> value, with zero and non-zero days
ExemplarData(p) == [day \in 1..NDaysYear |-> ((day - 1) * p) % 3]

\* length of the slice a[lo:hi] of an array of length NDaysYear
SliceLen(lo, hi) ==
    LET h == IF hi < NDaysYear THEN hi ELSE NDaysYear
    IN IF h > lo THEN h - lo ELSE 0

\* every group filled from the exemplar window of the first cluster
InteriorFirstCluster(exemplardata, pm, ssd, nd) ==
    Row([day \in 1..NDaysYear |->
          LET d == day - 1
          IN IF d >= 1 /\ d <= Len(pm) * nd
             THEN Navg * exemplardata[ssd[1] + ((d - 1) % nd) + 1]
             ELSE 0])

\* lines 592-599: the year after the groups are filled from their clusters
Interior(exemplardata, pm, ssd, nd) ==
    LET ngroup == Len(pm)
        ncluster == Len(pm[1])
    IN Row([day \in 1..NDaysYear |->
             LET d == day - 1
                 g == (d - 1) \div nd
                 o == (d - 1) % nd
             IN IF d >= 1 /\ d <= ngroup * nd
                THEN Navg * SumF([k \in 1..ncluster |->
                                    pm[g + 1][k] * exemplardata[ssd[k] + o + 1]],
                                 ncluster)
                ELSE 0])

\* sum of a[lo:hi] over 0-based days
RECURSIVE SumDays(_, _, _)
SumDays(a, lo, hi) == IF lo >= hi THEN 0 ELSE a[lo + 1] + SumDays(a, lo + 1, hi)

\* lines 605-609: day 0 and the incomplete last group copied from clusters k1, k2
BoundaryCopy(full, ssd, k1, k2, ngroup, nd) ==
    LET d1 == ssd[k1 + 1]
        d2 == ssd[k2 + 1]
        dstart == ngroup * nd + 1
        first == [full EXCEPT ![1] = full[d1 + 1]]
    IN Row([day \in 1..NDaysYear |->
             IF day - 1 >= dstart /\ day - 1 < dstart + nd
             THEN first[d2 + (day - 1 - dstart) + 1]
             ELSE first[day]])

\* line 609 assigns a slice to a slice: the lengths must agree (a day is at
\* least 24 points, so the right side is never a single element to broadcast)
BoundaryCopyFits(ssd, k2, ngroup, nd) ==
    LET d2 == ssd[k2 + 1]
        dstart == ngroup * nd + 1
        target == SliceLen(dstart, dstart + nd)
        source == SliceLen(d2, d2 + nd)
    IN source = target

\* lines 611-634: day 0 and the excluded days filled from averages
Fallback(full, ngroup, nd) ==
    LET day0 == IF full[1] = 0
                THEN [full EXCEPT ![1] = SumDays(full, 1, Navg + 1) \div Navg]
                ELSE full
        nexclude == 364 - ngroup * nd
        h1 == NDaysYear - nexclude
        d1 == NDaysYear - nexclude - Navg
        empty == \A d \in h1..(NDaysYear - 1) : day0[d + 1] = 0
    IN IF nexclude > 0 /\ empty
       THEN Row([day \in 1..NDaysYear |->
                  IF day - 1 < h1 THEN day0[day]
                  ELSE IF day - 1 = h1 THEN SumDays(day0, d1, d1 + Navg) \div Navg
                  ELSE 0])
       ELSE day0

\* lines 636-637
AsType(full, dtype) ==
    IF dtype = "bool" THEN [day \in 1..NDaysYear |-> IF full[day] # 0 THEN 1 ELSE 0]
    ELSE full

\* the exception the method ends with, or "none"
AnnualError(c, ssd, k1, k2, nd) ==
    IF "partition_matrix" \notin DOMAIN c THEN "KeyError"
    ELSE LET ngroup == Len(c.partition_matrix)
             ncluster == Len(c.partition_matrix[1])
             \* line 594-595: no start day for cluster k, or a slice too short
             bad == {k \in 1..ncluster :
                        k > Len(ssd) \/ SliceLen(ssd[k], ssd[k] + nd) # nd}
             kbad == CHOOSE k \in bad : \A j \in bad : k <= j
         IN IF bad # {} THEN (IF kbad > Len(ssd) THEN "IndexError" ELSE "ValueError")
            ELSE IF k1 >= 0 /\ k2 >= 0
            THEN IF k1 >= Len(ssd) \/ k2 >= Len(ssd) THEN "IndexError"
                 ELSE IF ~BoundaryCopyFits(ssd, k2, ngroup, nd) THEN "ValueError"
                 ELSE "none"
            ELSE "none"

\* the list the method returns
AnnualArray(exemplardata, c, ssd, k1, k2, nd, dtype) ==
    LET ngroup == Len(c.partition_matrix)
        full == Interior(exemplardata, c.partition_matrix, ssd, nd)
    IN AsType(IF k1 >= 0 /\ k2 >= 0
              THEN BoundaryCopy(full, ssd, k1, k2, ngroup, nd)
              ELSE Fallback(full, ngroup, nd), dtype)

\* a call that forgets the boundary assignment once it has used it
AnnualCallForgets(exemplardata, dtype) ==
    [input |-> exemplardata,
     clusters |-> clusters,
     sim_start_days |-> sim_start_days,
     index_first |-> -1,
     index_last |-> -1,
     out |-> AnnualArray(exemplardata, clusters, sim_start_days, index_first,
                         index_last, ndays, dtype)]

\* what a call leaves behind: the caller's array, the object's fields, the
\* returned list
AnnualCall(exemplardata, dtype) ==
    [input |-> exemplardata,
     clusters |-> clusters,
     sim_start_days |-> sim_start_days,
     index_first |-> index_first,
     index_last |-> index_last,
     out |-> AnnualArray(exemplardata, clusters, sim_start_days, index_first,
                         index_last, ndays, dtype)]

\* what the call before this one returned, when it was given the same array
\* and dtype and nothing ran in between
Repeated(a, p, dtype) ==
    IF a.active /\ a.arg = p /\ a.dtype = dtype THEN <<a.out>> ELSE <<>>

ComputeAnnual ==
    /\ pc = "idle"
    /\ \E p \in 1..MaxArrays, dtype \in {"float", "bool"} :
        LET e == AnnualError(clusters, sim_start_days, index_first, index_last, ndays)
        IN /\ err' = e
           /\ IF e # "none"
              THEN /\ annual' = [active |-> FALSE, raised |-> e]
                   /\ UNCHANGED <<clusters, derived>>
              ELSE LET r == AnnualCall(ExemplarData(p), dtype)
                   IN /\ clusters' = r.clusters
                      /\ sim_start_days' = r.sim_start_days
                      /\ index_first' = r.index_first
                      /\ index_last' = r.index_last
                      /\ annual' = [active |-> TRUE, arg |-> p, dtype |-> dtype,
                                    input |-> r.input, out |-> r.out,
                                    before |-> Repeated(annual, p, dtype)]
    /\ UNCHANGED <<config, afp_preference_mult, afp_damping, srch, rng, alg, call, pc,
                   passes, lastpass, fits>>

\* the clustering operations a caller can drive
Next ==
    \/ FormClusters
    \/ FitRound
    \/ FitFinish
    \/ CreateClusters
    \/ SearchAttempt
    \/ SearchExit
    \/ SearchEval
    \/ Sort
    \/ SetSimDays
    \/ AdjustWeighting

Spec == Init /\ [][Next]_vars

\* ------------------------------------------------------------- scenarios
\* every row the same vector
Uniform(n, v) == [g \in 1..n |-> <<v, v>>]
\* half of the groups all zeros, the other half all ones
TwoHalves(h) == [g \in 1..(2 * h) |-> IF g <= h THEN <<0, 0>> ELSE <<1, 1>>]

ScenarioData ==
    {TwoHalves(h) : h \in 1..MaxHalf}
    \cup {Uniform(n, v) : n \in 2..(2 * MaxHalf), v \in 0..MaxVal}

InitScenario == InitWith(ScenarioData) /\ NoMetrics

SpecScenario == InitScenario /\ [][Next]_vars

\* ------------------------------------------------- reconstruction of a year
\* hard partitions, no search: a pipeline run followed by reconstructions
AnnualData == {d \in AllData : d[1] = <<0, 0>>}

InitAnnual ==
    /\ InitWith(AnnualData)
    /\ NoMetrics
    /\ sim_hard_partitions
    /\ ~afp_enforce_Ncluster

NextAnnual ==
    \/ CreateClusters
    \/ FitRound
    \/ FitFinish
    \/ Sort
    \/ SetSimDays
    \/ AdjustWeighting
    \/ ComputeAnnual

SpecAnnual == InitAnnual /\ [][NextAnnual]_vars


\* ------------------------------------------- calculate_metrics, lines 304-307
\* Raw cells are integers in units of 1e-7, so the floor 1e-6 is 10 units and
\* ranges below it exist.  A normalized cell is the fraction <<num, den>>.
NormFloor == 10

Highest(table) == CHOOSE x \in {table[i] : i \in 1..Len(table)} :
                      \A i \in 1..Len(table) : table[i] <= x
Lowest(table) == CHOOSE x \in {table[i] : i \in 1..Len(table)} :
                     \A i \in 1..Len(table) : table[i] >= x

\* a normalization that floors the denominator only when the range is zero
NormalizedNoFloor(table) ==
    LET max_metric == Highest(table)
        min_metric == Lowest(table)
        range == max_metric - min_metric
        den == IF range = 0 THEN NormFloor ELSE range
    IN [i \in 1..Len(table) |-> <<table[i] - min_metric, den>>]

\* (daily_metrics[key] - min_metric) / max(1e-6, max_metric - min_metric)
Normalized(table) ==
    LET max_metric == Highest(table)
        min_metric == Lowest(table)
        range == max_metric - min_metric
        den == IF NormFloor > range THEN NormFloor ELSE range
    IN [i \in 1..Len(table) |-> <<table[i] - min_metric, den>>]

\* the tables of one active metric
RawTables == [1..MaxCells -> 0..MaxRaw]

InitMetrics ==
    /\ InitWith({<<<<0, 0>>>>})
    /\ ndays = 182
    /\ data_last = <<0, Sentinel>>
    /\ sim_hard_partitions
    /\ ~afp_enforce_Ncluster
    /\ raw_metric \in RawTables
    /\ daily_metrics = <<>>
    /\ DefaultSettings

\* lines 304-307 for one key with a non-zero weight
NormalizeMetric ==
    /\ raw_metric # <<>>
    /\ daily_metrics = <<>>
    /\ daily_metrics' = Normalized(raw_metric)
    /\ UNCHANGED <<inputs, raw_metric, settings, daily_avg_dni, schedule, obj, srch, rng,
                   alg, call, pc, err, passes, lastpass, fits, annual>>

NextMetrics == NormalizeMetric

SpecMetrics == InitMetrics /\ [][NextMetrics]_vars


\* ------------------------------------- get_sim/soln_start_end_times, 541-553
DaySeconds == 24 * 3600

\* a simulation window that ends two days after the solution window
SimStartEndTimesLong(d, nd) == <<(d - 1) * DaySeconds, (d + nd + 2) * DaySeconds>>

\* lines 543-546, for the start day d of the cluster
SimStartEndTimes(d, nd) == <<(d - 1) * DaySeconds, (d + nd + 1) * DaySeconds>>
\* lines 550-553
SolnStartEndTimes(d, nd) == <<d * DaySeconds, (d + nd) * DaySeconds>>

\* a caller asks for the simulation window of cluster clusterid
GetSimStartEndTimes ==
    /\ pc = "idle"
    /\ \E clusterid \in 0..Len(sim_start_days) :
        IF clusterid >= Len(sim_start_days)
        THEN err' = "IndexError" /\ UNCHANGED schedule
        ELSE LET d == sim_start_days[clusterid + 1]
             IN /\ schedule' = [schedule EXCEPT
                                   !.sim = <<clusterid, d>> \o SimStartEndTimes(d, ndays)]
                /\ err' = "none"
    /\ UNCHANGED <<inputs, metrics, obj, srch, rng, alg, call, pc, passes, lastpass, fits,
                   annual>>

\* a caller asks for the solution window of cluster clusterid
GetSolnStartEndTimes ==
    /\ pc = "idle"
    /\ \E clusterid \in 0..Len(sim_start_days) :
        IF clusterid >= Len(sim_start_days)
        THEN err' = "IndexError" /\ UNCHANGED schedule
        ELSE LET d == sim_start_days[clusterid + 1]
             IN /\ schedule' = [schedule EXCEPT
                                   !.soln = <<clusterid, d>> \o SolnStartEndTimes(d, ndays)]
                /\ err' = "none"
    /\ UNCHANGED <<inputs, metrics, obj, srch, rng, alg, call, pc, passes, lastpass, fits,
                   annual>>

\* ------------------------------------------- the whole range of ndays
\* Every ndays that leaves at least one complete group, with as many groups
\* as line 331 gives.  The engine is not run on these sizes: a pass stores
\* the cluster set of one of the results fit_predict can return.
InteriorDays == NDaysYear - 2

\* exemplar lists a pass may end with: the first group, the last, or both
ExemplarChoices(n) == {<<0>>, <<n - 1>>, <<0, n - 1>>}

\* the result record of fit_predict for given exemplars, every group with the
\* nearest exemplar by position
AnyFit(d, exemplars) ==
    LET n == Len(d)
    IN [n_clusters |-> Len(exemplars),
        cluster_means |-> [k \in 1..Len(exemplars) |-> d[exemplars[k] + 1]],
        cluster_index |-> [g \in 1..n |->
                              IF Len(exemplars) = 2 /\ g = n THEN 1 ELSE 0],
        wcss |-> 0,
        exemplars |-> exemplars,
        converged |-> TRUE]

InitYear ==
    /\ ndays \in 1..InteriorDays
    /\ InitObject({Uniform(InteriorDays \div ndays, 0)})
    /\ afp_damping = DefaultDamping
    /\ NoMetrics
    /\ sim_hard_partitions
    /\ ~afp_enforce_Ncluster
    /\ data_last[1] = 0

\* form_clusters_using_current_parameters, lines 440-498, as one step
FormClustersAnyFit ==
    /\ pc = "idle"
    /\ passes < MaxPasses
    /\ passes' = passes + 1
    /\ err' = "none"
    /\ annual' = NoAnnual
    /\ lastpass' = [call |-> "form", err |-> "none", accepted |-> FALSE]
    /\ IF n_group = 1
       THEN UNCHANGED clusters
       ELSE \E exemplars \in ExemplarChoices(n_group) :
               clusters' = ClusterDict(AnyFit(data, exemplars), n_group)
    /\ UNCHANGED <<config, afp_preference_mult, afp_damping, derived, srch, rng, alg, call,
                   pc, fits>>

NextSchedule ==
    \/ FormClustersAnyFit
    \/ SetSimDays
    \/ GetSimStartEndTimes
    \/ GetSolnStartEndTimes

SpecSchedule == InitYear /\ [][NextSchedule]_vars


\* --------------------------------------------------- the sort on its own
\* With 200 rounds the engine returns exemplars out of ascending order from
\* four groups on (rows (0,0), (0,0), (0,2), (0,1) give exemplars [2, 0]);
\* MaxIter rounds do not get that far.  Here create_clusters stores the
\* result of fit_predict for exemplars in any order, then sorts.
MaxSortGroup == 4
MaxSortCluster == 3

SortRows == {<<0, 0>>, <<0, 1>>, <<1, 1>>}
SortData == {d \in [1..MaxSortGroup -> SortRows] : d[1] = <<0, 0>>}

\* lists of distinct groups, in any order
ExemplarLists(n) ==
    UNION {{e \in [1..m -> 0..(n - 1)] : \A i, j \in 1..m : i # j => e[i] # e[j]} :
              m \in 1..MaxSortCluster}

\* what fit_predict stores when the refinement ends with exemplars, lines 758-768
FitWith(d, exemplars) ==
    LET D == Distance(Perturbed(WithPreference(Similarity(d), None), RandomSeed, 0))
        cluster_index == Nearest(D, exemplars)
        means == Row([k \in 1..Len(exemplars) |-> d[exemplars[k] + 1]])
    IN [n_clusters |-> Len(exemplars),
        cluster_means |-> means,
        cluster_index |-> cluster_index,
        wcss |-> compute_wcss(d, cluster_index, means),
        exemplars |-> Row(exemplars),
        converged |-> TRUE]

InitSort ==
    /\ InitWith(SortData)
    /\ NoMetrics
    /\ sim_hard_partitions
    /\ ~afp_enforce_Ncluster
    /\ data_last[1] = 0

\* create_clusters without the search, lines 351-352, up to the sort
CreateClustersAnyFit ==
    /\ pc = "idle"
    /\ passes < MaxPasses
    /\ passes' = passes + 1
    /\ err' = "none"
    /\ annual' = NoAnnual
    /\ \E exemplars \in ExemplarLists(n_group) :
        LET fit == FitWith(data, exemplars)
        IN /\ clusters' = ClusterDict(fit, n_group)
           /\ fits' = Remember(fit)
    /\ pc' = "sort"
    /\ call' = "create"
    /\ UNCHANGED <<config, afp_preference_mult, afp_damping, derived, srch, rng, alg,
                   lastpass>>

NextSort ==
    \/ CreateClustersAnyFit
    \/ Sort

SpecSort == InitSort /\ [][NextSort]_vars


\* ------------------------------------------- the search with a high damping
\* afp_damping is a setting of the object.  MaxIter rounds always end stable
\* at a damping of 0.65 and more, so here an attempt ends with any of the
\* results fit_predict can return, converged or not, and from 0.9 the
\* attempts that do not converge reach the cap of 0.95.
HighDamping == 18

SearchData == {d \in AnnualData : Len(d) = MaxGroup}

InitSearch ==
    /\ InitObject(SearchData)
    /\ ndays \in NdaysFor(Len(data))
    /\ afp_damping \in {DefaultDamping, HighDamping}
    /\ NoMetrics
    /\ afp_enforce_Ncluster
    /\ data_last[1] = 0

\* lines 366-368 with the whole of form_clusters_using_current_parameters
SearchAttemptAnyFit ==
    /\ pc = "loop"
    /\ SearchContinues(srch)
    /\ afp_preference_mult' = srch.mult
    /\ \E exemplars \in ExemplarChoices(n_group), converged \in BOOLEAN :
        LET fit == [FitWith(data, exemplars) EXCEPT !.converged = converged]
        IN /\ clusters' = ClusterDict(fit, n_group)
           /\ fits' = Remember(fit)
    /\ rng' = [Reseed(rng) EXCEPT !.pos = @ + n_group * n_group]
    /\ pc' = "eval"
    /\ UNCHANGED <<config, afp_damping, derived, srch, alg, call, err, passes, lastpass,
                   annual>>

NextSearch ==
    \/ CreateClusters
    \/ SearchAttemptAnyFit
    \/ SearchEval
    \/ SearchExit
    \/ Sort

SpecSearch == InitSearch /\ [][NextSearch]_vars


\* ------------------------------------------------ the search runs to its end
\* A call that has started keeps running: the steps of create_clusters and of
\* the engine are taken one after the other until the call returns or raises.
\* Weak fairness of the engine steps and of the start of an attempt is
\* written out, with the guard of the step as its enabling condition: a step
\* of fit_predict is enabled exactly when pc = "fit", an attempt exactly when
\* the loop test of line 366 holds.
Running ==
    /\ WF_vars(SearchEval)
    /\ WF_vars(SearchExit)
    /\ WF_vars(Sort)
    /\ ([]<>(pc # "fit") \/ []<><<FitRound \/ FitFinish>>_vars)
    /\ ([]<>~(pc = "loop" /\ SearchContinues(srch)) \/ []<><<SearchAttempt>>_vars)

InitTerminate ==
    /\ InitWith(SearchData)
    /\ NoMetrics
    /\ afp_enforce_Ncluster
    /\ data_last[1] = 0

SpecTerminate == InitTerminate /\ [][Next]_vars /\ Running

\* ------------------------------- feature vectors of the groups, lines 312-344
\* One metric family with a non-zero weight and one division per day: the
\* metric of the days of the group, its _prev and its _next, in the order of
\* the weights dictionary.  Days are counted from 0 as in the source; the
\* table of daily metrics holds day d at position d + 1.
MetricNames == <<"dni", "dni_prev", "dni_next">>

\* lines 314-319: the days the metric name reads for the group starting on d1
GroupDays(d1, name, nd) ==
    IF name = "dni_prev" THEN <<d1 - 1>>
    ELSE IF name = "dni_next" THEN <<d1 + nd>>
    ELSE [i \in 1..nd |-> d1 + i - 1]

\* lines 320-329, with weight 1: the cell of the day, or the sentinel for a
\* day that is not in the year
get_data_for_group(d1, name, nd, table) ==
    LET days == GroupDays(d1, name, nd)
    IN [j \in 1..Len(days) |->
           IF (days[j] >= 0) /\ (days[j] < NDaysYear)
           THEN table[days[j] + 1][1] \div table[days[j] + 1][2]
           ELSE Sentinel]

\* a count of groups that divides the whole year
CompleteGroupsWholeYear(nd) == NDaysYear \div nd

\* line 331: int((365 - 2) / ndays)
CompleteGroups(nd) == InteriorDays \div nd

\* lines 335-344 for one group: the columns of every metric, side by side
GroupRow(d1, nd, table) ==
    Row(get_data_for_group(d1, MetricNames[1], nd, table))
        \o Row(get_data_for_group(d1, MetricNames[2], nd, table))
        \o Row(get_data_for_group(d1, MetricNames[3], nd, table))

\* daily metrics already normalized to 0 or 1, alternating in runs of p days
DailyPattern(p) == [d \in 1..NDaysYear |-> <<((d - 1) \div p) % (MaxVal + 1), 1>>]

\* the object as __init__ leaves it, apart from ndays and the metric settings
InitBefore ==
    /\ data = <<>>
    /\ data_first = <<>>
    /\ data_last = <<>>
    /\ sim_hard_partitions \in BOOLEAN
    /\ afp_enforce_Ncluster = FALSE
    /\ n_cluster = MaxTarget
    /\ afp_enforce_Ncluster_tol = 0
    /\ afp_preference_mult = <<1, 1>>
    /\ afp_damping = DefaultDamping
    /\ clusters = EmptyDict
    /\ sim_start_days = <<>>
    /\ index_first = -1
    /\ index_last = -1
    /\ srch = NoSearch
    /\ rng = [seed |-> 0, pos |-> 0]
    /\ alg = NoAlg
    /\ call = "none"
    /\ pc = "idle"
    /\ err = "none"
    /\ passes = 0
    /\ lastpass = NoPass
    /\ fits = <<>>
    /\ annual = NoAnnual
    /\ schedule = NoSchedule

\* calculate_metrics has the daily metrics and is about to assemble the
\* feature vectors
InitFeatures ==
    /\ ndays \in 1..InteriorDays
    /\ daily_metrics \in {DailyPattern(p) : p \in 1..2}
    /\ raw_metric = <<>>
    /\ DefaultSettings
    /\ InitBefore

\* lines 331-344 of calculate_metrics
BuildFeatures ==
    /\ pc = "idle"
    /\ data = <<>>
    /\ daily_metrics # <<>>
    /\ LET groups == CompleteGroups(ndays)
       IN /\ data' = [g \in 1..groups |->
                         GroupRow((g - 1) * ndays + 1, ndays, daily_metrics)]
          /\ data_first' = GroupRow(0, ndays, daily_metrics)
          /\ data_last' = GroupRow(ndays * groups + 1, ndays, daily_metrics)
    /\ UNCHANGED <<ndays, sim_hard_partitions, afp_enforce_Ncluster, n_cluster,
                   afp_enforce_Ncluster_tol, metrics, schedule, obj, srch, rng, alg,
                   call, pc, err, passes, lastpass, fits, annual>>

NextFeatures == BuildFeatures

SpecFeatures == InitFeatures /\ [][NextFeatures]_vars


\* ----------------------- weights and divisions, lines 174-183 and 262-278
\* keys a caller may put in self.weights and self.divisions
UserKeys == {"dni", "dni_next", "price", "cloud"}
Dicts(keys, values) == UNION {[S -> values] : S \in SUBSET keys}

\* dict.update
Update(dict, other) ==
    [k \in DOMAIN dict \cup DOMAIN other |->
        IF k \in DOMAIN other THEN other[k] ELSE dict[k]]

\* lines 175-183: self.weights and self.divisions after the merge
Merged(use_default, w, dv) ==
    IF use_default \/ DOMAIN w = {}
    THEN [weights |-> DefaultWeights, divisions |-> DefaultDivisions]
    ELSE LET missing == {k \in DefaultKeys : k \notin DOMAIN w}
         IN [weights |-> Update(w, [k \in missing |-> 0]),
             divisions |-> Update(dv, [k \in missing |-> 1])]

\* lines 264-276: self.divisions[key] and bounds[key] for every key with a
\* positive weight; bounds has the keys of the defaults (lines 94, 175)
LookupError(w, dv) ==
    IF \E key \in DOMAIN w :
          w[key] > 0 /\ (key \notin DOMAIN dv \/ key \notin DefaultKeys)
    THEN "KeyError"
    ELSE "none"

InitMerge ==
    /\ ndays = 2
    /\ raw_metric = <<>>
    /\ daily_metrics = <<>>
    /\ use_default_weights \in BOOLEAN
    /\ weights \in Dicts(UserKeys, {0, 8})
    /\ divisions \in Dicts(UserKeys, {1, 2})
    /\ daily_avg_dni = NoDni
    /\ InitBefore

\* calculate_metrics from its start to the end of the per-metric lookups
MergeWeights ==
    /\ pc = "idle"
    /\ data = <<>>
    /\ LET m == Merged(use_default_weights, weights, divisions)
           e == LookupError(m.weights, m.divisions)
       IN /\ weights' = m.weights
          /\ divisions' = m.divisions
          /\ \E v \in DniLevels : daily_avg_dni' = ScalarDni(v)
          /\ err' = e
          /\ lastpass' = [call |-> "calculate_metrics", err |-> e, accepted |-> FALSE,
                          given |-> [weights |-> weights, divisions |-> divisions]]
    /\ UNCHANGED <<inputs, raw_metric, daily_metrics, use_default_weights, schedule, obj,
                   srch, rng, alg, call, pc, passes, fits, annual>>

NextMerge == MergeWeights

SpecMerge == InitMerge /\ [][NextMerge]_vars


\* ------------------------------------ initial charge states, lines 555-578
\* solar multiples in tenths; 0 stands for None (and for 0, which the test of
\* line 563 treats alike)
SolarMultiples == {0, 10, 15, 20}

\* lines 560-570: the percentage returned, or the exception
csp_soc_heuristic(clusterid, solar_multiple) ==
    IF clusterid >= Len(sim_start_days) THEN [raised |-> "IndexError"]
    ELSE LET d == sim_start_days[clusterid + 1]
             day == IF d - 2 > 0 THEN d - 2 ELSE 0
         IN IF daily_avg_dni.kind = "scalar" \/ day >= Len(daily_avg_dni.items)
            THEN [raised |-> "IndexError"]
            ELSE LET prev_day_dni == daily_avg_dni.items[day + 1]
                 IN [raised |-> "none",
                     initial_soc |->
                         IF solar_multiple = 0 THEN 10
                         ELSE IF prev_day_dni < 6 \/ solar_multiple < 15 THEN 5
                         ELSE IF solar_multiple < 20 THEN 10 ELSE 20]

\* line 578
battery_soc_heuristic(clusterid) == [raised |-> "none", initial_soc |-> 0]

\* a caller asks for the initial TES charge state of cluster clusterid
CspSocHeuristic ==
    /\ pc = "idle"
    /\ \E clusterid \in 0..Len(sim_start_days), solar_multiple \in SolarMultiples :
        LET r == csp_soc_heuristic(clusterid, solar_multiple)
        IN /\ err' = r.raised
           /\ schedule' = [schedule EXCEPT
                              !.soc = [fn |-> "csp", clusterid |-> clusterid,
                                       solar_multiple |-> solar_multiple, out |-> r]]
    /\ UNCHANGED <<inputs, metrics, obj, srch, rng, alg, call, pc, passes, lastpass, fits,
                   annual>>

\* a caller asks for the initial battery charge state of cluster clusterid
BatterySocHeuristic ==
    /\ pc = "idle"
    /\ \E clusterid \in 0..Len(sim_start_days) :
        LET r == battery_soc_heuristic(clusterid)
        IN /\ err' = r.raised
           /\ schedule' = [schedule EXCEPT
                              !.soc = [fn |-> "battery", clusterid |-> clusterid,
                                       solar_multiple |-> 0, out |-> r]]
    /\ UNCHANGED <<inputs, metrics, obj, srch, rng, alg, call, pc, passes, lastpass, fits,
                   annual>>

NextSoc ==
    \/ FormClustersAnyFit
    \/ SetSimDays
    \/ CspSocHeuristic
    \/ BatterySocHeuristic

\* the pipeline has run on a year of at most MaxGroup groups
InitSoc == InitYear /\ ndays >= InteriorDays \div MaxGroup

SpecSoc == InitSoc /\ [][NextSoc]_vars


\* ------------------------------------------------ rows that occur twice
\* Four groups, two of them with the same features.  The caller sets the
\* preference multiplier before a pass with the current parameters.
DuplicateData ==
    {<<<<0, 0>>, <<0, 0>>, <<0, 1>>, <<1, 1>>>>,
     <<<<0, 0>>, <<0, 1>>, <<0, 1>>, <<1, 1>>>>}
PreferenceMults == {<<1, 1>>, <<3, 2>>, <<2, 1>>}

\* self.afp_preference_mult = mult, by the caller
SetPreferenceMult ==
    /\ pc = "idle"
    /\ \E mult \in PreferenceMults : afp_preference_mult' = mult
    /\ annual' = NoAnnual
    /\ UNCHANGED <<config, afp_damping, clusters, derived, srch, rng, alg, call, pc, err,
                   passes, lastpass, fits>>

InitDuplicates ==
    /\ InitWith(DuplicateData)
    /\ NoMetrics
    /\ sim_hard_partitions
    /\ ~afp_enforce_Ncluster

NextDuplicates ==
    \/ FormClusters
    \/ FitRound
    \/ FitFinish
    \/ SetPreferenceMult

SpecDuplicates == InitDuplicates /\ [][NextDuplicates]_vars


\* ================================================================ claims
\* the last fit_predict run that returned
LastFit == fits[Len(fits)]
\* a clustering call has returned normally and nothing has started since
Ended(c) == pc = "idle" /\ lastpass.call = c /\ lastpass.err = "none"

\* C1: after form_clusters_using_current_parameters with hard partitions has
\* returned, for any n_group >= 1, the stored cluster set gives every group
\* one cluster id in 0..n_cluster-1 and its partition_matrix row is 1 in that
\* column and 0 elsewhere.
C1_TotalAssignment ==
    (Ended("form") /\ sim_hard_partitions) =>
        /\ {"index", "n_cluster", "partition_matrix"} \subseteq DOMAIN clusters
        /\ Len(clusters.index) = n_group
        /\ \A g \in 1..n_group :
            /\ clusters.index[g] \in 0..(clusters.n_cluster - 1)
            /\ \A k \in 1..clusters.n_cluster :
                clusters.partition_matrix[g][k] = IF k - 1 = clusters.index[g] THEN 1 ELSE 0

Adjusted == "weights_adjusted" \in DOMAIN clusters

\* C2: after adjust_weighting_for_incomplete_groups the entries of
\* weights_adjusted sum to 1 (numerators sum to the common denominator),
\* whatever index_first and index_last are, also when they are equal.
C2_AdjustedWeightsSumToOne ==
    Adjusted =>
        LET w == clusters.weights_adjusted
        IN /\ \A k \in 1..Len(w) : w[k][2] = w[1][2] /\ w[k][2] > 0
           /\ SumF([k \in 1..Len(w) |-> w[k][1]], Len(w)) = w[1][2]

\* both boundary pieces went to the same cluster of several
C2_Witness ==
    /\ Adjusted
    /\ clusters.n_cluster >= 2
    /\ index_first = index_last

\* C3: with n_group = 1, create_clusters returns without an exception and
\* without running the engine, and self.clusters describes 1 cluster with
\* wcss 0 and weights [1].
C3_SingleGroup ==
    (pc = "idle" /\ lastpass.call = "create" /\ n_group = 1) =>
        /\ lastpass.err = "none"
        /\ fits = <<>>
        /\ {"n_cluster", "wcss", "weights"} \subseteq DOMAIN clusters
        /\ clusters.n_cluster = 1
        /\ clusters.wcss = 0
        /\ clusters.weights = <<<<1, 1>>>>

UniformRows == \A g \in Groups : data[g] = data[1]

\* C4: when every row is the same vector (n_group >= 2) and the preference is
\* the default, fit_predict ends its loop with an exemplar and returns
\* 1 cluster holding every group, with WCSS 0.
C4_UniformOneExemplar ==
    (pc = "fit" /\ ~Looping(alg) /\ UniformRows /\ alg.preference = None) =>
        /\ \E i \in Groups : alg.exemplars[i]
        /\ FitResult(alg, data).n_clusters = 1
        /\ \A g \in 1..n_group : FitResult(alg, data).cluster_index[g] = 0
        /\ FitResult(alg, data).wcss = 0

IsTwoHalves == data = TwoHalves(n_group \div 2)

\* C5: with half of the groups all zeros and half all ones, a clustering pass
\* without the cluster-count search and with default parameters ends normally,
\* its engine run converged and found 2 exemplars, one in each half.
C5_TwoHalvesTwoExemplars ==
    (/\ pc = "idle" /\ lastpass.call \in {"form", "create"}
     /\ IsTwoHalves /\ sim_hard_partitions /\ ~afp_enforce_Ncluster) =>
        /\ lastpass.err = "none"
        /\ fits # <<>>
        /\ LastFit.converged
        /\ LastFit.n_clusters = 2
        /\ LastFit.exemplars[1] < n_group \div 2
        /\ LastFit.exemplars[2] >= n_group \div 2

\* C6: when the search of create_clusters stopped on an accepted attempt, the
\* cluster set it leaves has n_cluster within the tolerance of the target and
\* 'converged' equal to True.
C6_AcceptedIsConverged ==
    (Ended("create") /\ lastpass.accepted) =>
        /\ Accepted(clusters.n_cluster, n_cluster, afp_enforce_Ncluster_tol)
        /\ clusters.converged = TRUE

\* the boundary vector equals the mean row wherever the vector is defined
Matches(boundary, mean) ==
    \A f \in 1..Len(boundary) : boundary[f] > -1000000 => boundary[f] = mean[f]
ColumnSum(k) ==
    SumF([g \in 1..n_group |-> clusters.partition_matrix[g][k]], n_group)
Nlast == NDaysYear - n_group * ndays - 1
GroupsAdjusted == n_group * ndays + 1 + Nlast

\* C7 as stated: a cluster k whose mean the first (last) boundary vector
\* matches becomes index_first (index_last), and its adjusted weight is its
\* column sum plus 1/ndays (plus nlast/ndays) over the adjusted group count.
C7_Original ==
    Adjusted =>
        \A k \in 1..clusters.n_cluster :
            /\ Matches(data_first, clusters.means[k]) =>
                /\ index_first = k - 1
                /\ clusters.weights_adjusted[k] = <<ndays * ColumnSum(k) + 1, GroupsAdjusted>>
            /\ Matches(data_last, clusters.means[k]) =>
                /\ index_last = k - 1
                /\ clusters.weights_adjusted[k] = <<ndays * ColumnSum(k) + Nlast, GroupsAdjusted>>

\* C7: when clusters match a boundary vector, index_first (index_last) is the
\* lowest-numbered of them, and every cluster's adjusted weight is its column
\* sum, plus 1/ndays if it is index_first, plus nlast/ndays if it is
\* index_last, over the adjusted group count.
C7_LowestMatchBothShares ==
    Adjusted =>
        /\ \A k \in 1..clusters.n_cluster :
            /\ Matches(data_first, clusters.means[k]) =>
                /\ index_first <= k - 1
                /\ Matches(data_first, clusters.means[index_first + 1])
            /\ Matches(data_last, clusters.means[k]) =>
                /\ index_last <= k - 1
                /\ Matches(data_last, clusters.means[index_last + 1])
            /\ clusters.weights_adjusted[k] =
                  <<ndays * ColumnSum(k)
                      + (IF index_first = k - 1 THEN 1 ELSE 0)
                      + (IF index_last = k - 1 THEN Nlast ELSE 0),
                    GroupsAdjusted>>

\* two clusters match the first boundary vector
C7_Witness ==
    /\ Adjusted
    /\ \E j, k \in 1..clusters.n_cluster :
        /\ j < k
        /\ Matches(data_first, clusters.means[j])
        /\ Matches(data_first, clusters.means[k])

\* C8: for every converged run of fit_predict, the WCSS returned (after the
\* exemplars of clusters with more than 2 members were replaced and the points
\* re-assigned) is at most the WCSS of the assignment to the raw exemplars.
C8_RefinementNeverWorse ==
    \A r \in 1..Len(fits) : fits[r].converged => fits[r].wcss <= fits[r].raw_wcss

\* a converged run whose replacement lowered the WCSS
C8_Witness ==
    \E r \in 1..Len(fits) : fits[r].converged /\ fits[r].wcss < fits[r].raw_wcss

SameInputs(a, b) ==
    /\ a.data = b.data
    /\ a.damping = b.damping
    /\ a.max_iter = b.max_iter
    /\ a.convergence_iter = b.convergence_iter
    /\ a.preference = b.preference

\* C10: two runs of fit_predict with the same data, damping, max_iter,
\* convergence_iter and preference return the same exemplars, n_clusters,
\* cluster_index and wcss, whatever state the random generator was in before
\* each run.
C10_Deterministic ==
    (Len(fits) = 2 /\ SameInputs(fits[1], fits[2])) =>
        /\ fits[1].exemplars = fits[2].exemplars
        /\ fits[1].n_clusters = fits[2].n_clusters
        /\ fits[1].cluster_index = fits[2].cluster_index
        /\ fits[1].wcss = fits[2].wcss

\* two runs with the same inputs that found the generator in different states
C10_Witness ==
    /\ Len(fits) = 2
    /\ SameInputs(fits[1], fits[2])
    /\ fits[1].rng_before # fits[2].rng_before

\* the value of a normalized cell against 0 and 1
IsZero(q) == q[1] = 0
IsOne(q) == q[1] = q[2]
InUnit(q) == q[2] > 0 /\ 0 <= q[1] /\ q[1] <= q[2]
RawRange == Highest(raw_metric) - Lowest(raw_metric)
Cells == 1..Len(daily_metrics)

\* C11 as stated: a table with any non-zero range, however small, is
\* normalized to minimum 0 and maximum 1 with every entry in [0, 1].
C11_Original ==
    (daily_metrics # <<>> /\ RawRange > 0) =>
        /\ \A i \in Cells : InUnit(daily_metrics[i])
        /\ \E i \in Cells : IsZero(daily_metrics[i])
        /\ \E i \in Cells : IsOne(daily_metrics[i])

\* C11: every entry of a normalized table lies in [0, 1] and the minimum is
\* 0; the maximum is 1 when the raw range is at least the floor 1e-6, and
\* (raw range)/1e-6, below 1, when the range is smaller.
C11_NormalizedAboveFloor ==
    daily_metrics # <<>> =>
        /\ \A i \in Cells : InUnit(daily_metrics[i])
        /\ \E i \in Cells : IsZero(daily_metrics[i])
        /\ RawRange >= NormFloor => \E i \in Cells : IsOne(daily_metrics[i])
        /\ RawRange < NormFloor =>
              /\ \A i \in Cells : daily_metrics[i][1] <= RawRange
              /\ \E i \in Cells : daily_metrics[i] = <<RawRange, NormFloor>>

\* a table whose range is non-zero and below the floor has been normalized
C11_Witness ==
    /\ daily_metrics # <<>>
    /\ RawRange > 0
    /\ RawRange < NormFloor

\* both windows of one cluster are known, for the same start day
BothWindows ==
    /\ schedule.sim # <<>>
    /\ schedule.soln # <<>>
    /\ schedule.sim[1] = schedule.soln[1]
    /\ schedule.sim[2] = schedule.soln[2]
YearSeconds == NDaysYear * DaySeconds

\* C12: for the start day d = 1 + exemplar*ndays of a cluster, the solution
\* window is [d, d + ndays) days, the simulation window starts one day before
\* it and contains it, all four bounds lie in [0, 365*86400] s, and day 0 is
\* not inside the solution window.
C12_Windows ==
    /\ schedule.soln # <<>> =>
        LET d == schedule.soln[2]
        IN /\ \E e \in 0..(n_group - 1) : d = 1 + e * ndays
           /\ schedule.soln[3] = d * DaySeconds
           /\ schedule.soln[4] - schedule.soln[3] = ndays * DaySeconds
           /\ schedule.soln[3] >= DaySeconds
           /\ schedule.soln[4] <= YearSeconds
    /\ schedule.sim # <<>> =>
        /\ schedule.sim[3] >= 0
        /\ schedule.sim[4] <= YearSeconds
    /\ BothWindows =>
        /\ schedule.sim[3] = schedule.soln[3] - DaySeconds
        /\ schedule.sim[4] >= schedule.soln[4]

\* both windows of the cluster whose exemplar is the last group, whose
\* simulation window ends latest
C12_Witness ==
    /\ BothWindows
    /\ schedule.soln[2] = 1 + (n_group - 1) * ndays
    /\ n_group * ndays = InteriorDays

\* sum over clusters k of partition_matrix[g, k] times the caller's value at
\* offset o of the window of cluster k
WeightedSum(g, o) ==
    SumF([k \in 1..clusters.n_cluster |->
            clusters.partition_matrix[g + 1][k]
                * annual.input[sim_start_days[k] + o + 1]],
         clusters.n_cluster)
\* the returned value at offset o of interior group g
Returned(g, o) == annual.out[1 + g * ndays + o + 1]

\* C13 as stated: the returned value of every interior group and offset is
\* the partition-matrix-weighted sum of the exemplar values, whatever dtype.
C13_Original ==
    annual.active =>
        \A g \in 0..(n_group - 1), o \in 0..(ndays - 1) :
            IF annual.dtype = "bool"
            THEN Returned(g, o) = WeightedSum(g, o)
            ELSE Returned(g, o) = Navg * WeightedSum(g, o)

\* C13: the returned value of every interior group and offset is the
\* partition-matrix-weighted sum of the exemplar values when dtype is float,
\* and the truth value of that sum (non-zero) when dtype is bool.
C13_InteriorIsWeightedSum ==
    annual.active =>
        \A g \in 0..(n_group - 1), o \in 0..(ndays - 1) :
            IF annual.dtype = "bool"
            THEN Returned(g, o) = (IF WeightedSum(g, o) # 0 THEN 1 ELSE 0)
            ELSE Returned(g, o) = Navg * WeightedSum(g, o)

\* a year rebuilt from two clusters whose exemplar windows differ
C13_Witness ==
    /\ annual.active
    /\ clusters.n_cluster = 2
    /\ \E g \in 0..(n_group - 1), o \in 0..(ndays - 1) :
        /\ clusters.index[g + 1] = 1
        /\ WeightedSum(g, o) # 0
        /\ annual.input[sim_start_days[1] + o + 1] # WeightedSum(g, o)

\* a reconstruction has just ended, with a list or an exception, on a cluster
\* set with both boundary assignments and the start days of its exemplars
BoundaryCall ==
    /\ annual # NoAnnual
    /\ index_first >= 0
    /\ index_last >= 0
    /\ "exemplars" \in DOMAIN clusters
    /\ sim_start_days = SimStartDays(clusters, ndays)
\* the caller's value as the returned list holds it
AsReturned(v) == IF annual.dtype = "bool" THEN (IF v # 0 THEN 1 ELSE 0) ELSE Navg * v

\* C14: with both boundary assignments made, the reconstruction returns a
\* list of the input's length whose day 0 is the first day of the exemplar
\* group of cluster index_first and whose trailing days 1 + n_group*ndays + j
\* are the days j of the exemplar group of cluster index_last.
C14_BoundaryCopied ==
    BoundaryCall =>
        /\ annual.active
        /\ Len(annual.out) = Len(annual.input)
        /\ annual.out[1] = AsReturned(annual.input[sim_start_days[index_first + 1] + 1])
        /\ \A j \in 0..(Nlast - 1) :
              annual.out[1 + n_group * ndays + j + 1]
                  = AsReturned(annual.input[sim_start_days[index_last + 1] + j + 1])

\* a step that runs one round of the loop of fit_predict
RoundStep == alg.active /\ alg'.active /\ alg'.q # alg.q
\* a step in which fit_predict leaves its loop and returns
ReturnStep ==
    /\ alg.active
    /\ ~alg'.active
    /\ \E i \in Groups : alg.exemplars[i]
    /\ fits' # <<>>

\* C15: a round is run only below max_iter rounds and below convergence_iter
\* stable rounds; it adds 1 to the counter when its exemplar set is that of
\* the round before and sets it to 0 otherwise; fit_predict leaves the loop
\* only at max_iter rounds or at convergence_iter stable rounds; converged is
\* True exactly when the counter reached convergence_iter.
C15_LoopAndConverged ==
    [][/\ RoundStep =>
            /\ alg.q < alg.max_iter
            /\ alg.count < alg.convergence_iter
            /\ alg'.q = alg.q + 1
            /\ alg'.exemplars = alg.exemplars => alg'.count = alg.count + 1
            /\ alg'.exemplars # alg.exemplars => alg'.count = 0
       /\ ReturnStep =>
            /\ alg.q <= alg.max_iter
            /\ alg.q = alg.max_iter \/ alg.count = alg.convergence_iter
            /\ fits'[Len(fits')].converged = (alg.count = alg.convergence_iter)
            /\ ~fits'[Len(fits')].converged =>
                    alg.q = alg.max_iter /\ alg.count < alg.convergence_iter]_vars

\* a run that left the loop on the counter after a run that left it at
\* max_iter with the counter below convergence_iter
C15_Witness ==
    /\ Len(fits) = 2
    /\ ~fits[1].converged
    /\ fits[2].converged

\* the largest of A[i,k'] + S[i,k'] over the columns k' other than k, before
\* the round
MaxOther(i, k) ==
    LET others == {Add(alg.A[i][j], alg.S[i][j]) : j \in Groups \ {k}}
    IN CHOOSE x \in others : \A y \in others : ~Less(x, y)

\* C16: a round stores, for every row i and column k, R[i,k] =
\* damping*R_prev[i,k] + (1-damping)*(S[i,k] - max over k' # k of
\* (A[i,k'] + S[i,k'])), at the column of the row maximum and with tied
\* maxima too.
C16_Responsibility ==
    [][RoundStep =>
          \A i \in Groups, k \in Groups :
              alg'.R[i][k] = Damp(alg.R[i][k], Sub(alg.S[i][k], MaxOther(i, k)),
                                  alg.damping)]_vars

\* the first round has run on a similarity matrix with a row whose maximum is
\* held by two columns
C16_Witness ==
    /\ alg.active
    /\ alg.q = 1
    /\ \E i \in Groups, j \in Groups, k \in Groups :
        /\ j # k
        /\ alg.S[i][j] = alg.S[i][k]
        /\ \A m \in Groups : ~Less(alg.S[i][j], alg.S[i][m])
    /\ \E i \in Groups, k \in Groups : alg.R[i][k] # Zero

\* max(0, x) and min(0, x)
Pos(x) == IF Less(x, Zero) THEN Zero ELSE x
NonPos(x) == IF Less(Zero, x) THEN Zero ELSE x
\* sum of max(0, R[i', k]) over the rows i' outside skip
PosSum(R, k, skip) ==
    <<SumF([i \in Groups |-> IF i \in skip THEN 0 ELSE Pos(R[i][k])[1]], n_group),
      SumF([i \in Groups |-> IF i \in skip THEN 0 ELSE Pos(R[i][k])[2]], n_group)>>
\* the off-diagonal value as the claim words it
AsWorded(R, i, k) == Add(NonPos(R[k][k]), PosSum(R, k, {i}))
\* min(0, R[k,k] + sum over i' outside {i, k} of max(0, R[i',k]))
Clipped(R, i, k) == NonPos(Add(R[k][k], PosSum(R, k, {i, k})))

\* C17 as stated: the undamped availability of an off-diagonal entry (i,k) is
\* min(0, R[k,k]) plus the sum over i' # i of max(0, R[i',k]); of a diagonal
\* entry the sum over i' # k of max(0, R[i',k]); A is damped against A_prev.
C17_Original ==
    [][RoundStep =>
          \A i \in Groups, k \in Groups :
              alg'.A[i][k] = Damp(alg.A[i][k],
                                  IF i = k THEN PosSum(alg'.R, k, {k})
                                  ELSE AsWorded(alg'.R, i, k),
                                  alg.damping)]_vars

\* C17: the undamped availability of an off-diagonal entry (i,k) is
\* min(0, R[k,k] + sum over i' outside {i,k} of max(0, R[i',k])), the minimum
\* taken of the whole sum; of a diagonal entry it is the sum over i' # k of
\* max(0, R[i',k]); the stored A is damping*A_prev + (1-damping)*that value.
C17_Availability ==
    [][RoundStep =>
          \A i \in Groups, k \in Groups :
              alg'.A[i][k] = Damp(alg.A[i][k],
                                  IF i = k THEN PosSum(alg'.R, k, {k})
                                  ELSE Clipped(alg'.R, i, k),
                                  alg.damping)]_vars

\* the first round has stored an availability 0 where the sum was positive,
\* and a negative one elsewhere
C17_Witness ==
    /\ alg.active
    /\ alg.q = 1
    /\ \E i \in Groups, k \in Groups :
        /\ i # k
        /\ Less(Zero, Add(alg.R[k][k], PosSum(alg.R, k, {i, k})))
        /\ alg.A[i][k] = Zero
    /\ \E i \in Groups, k \in Groups : i # k /\ Less(alg.A[i][k], Zero)

\* the median of the entries M[i][j], i # j, of a square matrix
OffDiagonal(M) == {ij \in (1..Len(M)) \X (1..Len(M)) : ij[1] # ij[2]}
OffKth(M, k) ==
    LET vals == {M[ij[1]][ij[2]] : ij \in OffDiagonal(M)}
        below(x) == Cardinality({ij \in OffDiagonal(M) : M[ij[1]][ij[2]] < x})
        upto(x) == Cardinality({ij \in OffDiagonal(M) : M[ij[1]][ij[2]] <= x})
    IN CHOOSE x \in vals : below(x) < k /\ upto(x) >= k
OffMedian(M) ==
    LET N == Cardinality(OffDiagonal(M))
    IN (OffKth(M, N \div 2) + OffKth(M, N \div 2 + 1)) \div 2

\* C18: the preference on the diagonal of S is the median of the off-diagonal
\* similarities when the multiplier is 1.0, and that median times
\* afp_preference_mult otherwise.
C18_OffDiagonalMedian ==
    (alg.active /\ alg.q = 0) =>
        \A i \in Groups :
            alg.S[i][i][1] =
                IF afp_preference_mult[1] = afp_preference_mult[2]
                THEN OffMedian(Similarity(data))
                ELSE MulDiv(OffMedian(Similarity(data)),
                            afp_preference_mult[1], afp_preference_mult[2])

\* the groups the sorted cluster set puts in the cluster at position k
InCluster(k) == {g \in Groups : clusters.index[g] = k - 1}

\* C19: after create_clusters the exemplars are strictly ascending; means[k]
\* is the row of group exemplars[k]; count[k], weights[k] and column k of the
\* partition matrix describe the groups with index k; every group has the
\* exemplar group fit_predict gave it; n_cluster and wcss are those of
\* fit_predict.
C19_SortIsConsistent ==
    (Ended("create") /\ "exemplars" \in DOMAIN clusters) =>
        /\ \A k \in 1..(clusters.n_cluster - 1) :
              clusters.exemplars[k] < clusters.exemplars[k + 1]
        /\ \A k \in 1..clusters.n_cluster :
              /\ clusters.means[k] = data[clusters.exemplars[k] + 1]
              /\ clusters.count[k] = Cardinality(InCluster(k))
              /\ clusters.weights[k] = <<Cardinality(InCluster(k)), n_group>>
              /\ \A g \in Groups :
                    clusters.partition_matrix[g][k] = (IF g \in InCluster(k) THEN 1 ELSE 0)
        /\ \A g \in Groups :
              clusters.exemplars[clusters.index[g] + 1]
                  = LastFit.exemplars[LastFit.cluster_index[g] + 1]
        /\ clusters.n_cluster = LastFit.n_clusters
        /\ clusters.wcss = LastFit.wcss

\* create_clusters has sorted three clusters that fit_predict returned in
\* descending order of exemplar, none of them empty
C19_Witness ==
    /\ Ended("create")
    /\ "exemplars" \in DOMAIN clusters
    /\ clusters.n_cluster = 3
    /\ LastFit.exemplars[1] > LastFit.exemplars[2]
    /\ LastFit.exemplars[2] > LastFit.exemplars[3]
    /\ \A k \in 1..3 : clusters.count[k] >= 1

\* a step that evaluates an attempt on which the engine did not converge
NotConvergedStep ==
    /\ pc = "eval"
    /\ pc' = "loop"
    /\ "converged" \in DOMAIN clusters
    /\ clusters.converged = FALSE
\* a step that starts an attempt of the search
AttemptStep == pc = "loop" /\ pc' \in {"fit", "eval"}

\* C20: an attempt on which the engine did not converge raises afp_damping by
\* 0.05, or to 0.95 when that would pass 0.95, and leaves the multiplier and
\* the previous (multiplier, cluster count) pair as they were: the multiplier
\* of the next attempt is the one of the attempt just made.
C20_NotConvergedRetries ==
    [][/\ NotConvergedStep =>
            /\ afp_damping' <= 19
            /\ afp_damping' = afp_damping + 1 \/ (afp_damping' = 19 /\ afp_damping >= 18)
            /\ srch'.mult = srch.mult
            /\ srch'.mult = afp_preference_mult
            /\ srch'.mult_prev = srch.mult_prev
            /\ srch'.Nc_prev = srch.Nc_prev
       /\ AttemptStep => afp_preference_mult' = srch.mult]_vars

\* the search is about to retry after two attempts that did not converge,
\* the second of them at the cap
C20_Witness ==
    /\ pc = "loop"
    /\ srch.active
    /\ srch.i = 2
    /\ srch.Nc_prev = 0
    /\ afp_damping = 19
    /\ srch.damping_original = HighDamping
    /\ "converged" \in DOMAIN clusters
    /\ clusters.converged = FALSE

\* a step that evaluates a converged attempt outside the tolerance
RejectedStep ==
    /\ pc = "eval"
    /\ pc' = "loop"
    /\ "converged" \in DOMAIN clusters
    /\ clusters.converged = TRUE
    /\ ~Accepted(clusters.n_cluster, n_cluster, afp_enforce_Ncluster_tol)
\* the fraction x equals num / den
Equals(x, num, den) == x[1] * den = x[2] * num
\* numerator and denominator of mult - 0.85*(Nc - Ntarget)/slope, with
\* slope = (Nc - Nc_prev)/(mult - mult_prev), for the search record r
SecantNum(r, Nc) ==
    20 * (Nc - r.Nc_prev) * r.mult_prev[2] * r.mult[1]
        - 17 * (Nc - n_cluster) * (r.mult[1] * r.mult_prev[2] - r.mult_prev[1] * r.mult[2])
SecantDen(r, Nc) == 20 * (Nc - r.Nc_prev) * r.mult[2] * r.mult_prev[2]

\* C21: after a converged attempt outside the tolerance the next multiplier
\* is mult*Nc/Ntarget on the first converged attempt or when Nc is the
\* previous count; otherwise the secant value, replaced by mult*Nc/Ntarget
\* when it is <= 0; and (mult, Nc) becomes the previous pair.
C21_NextMultiplier ==
    [][RejectedStep =>
          LET Nc == clusters.n_cluster
              proportional == Equals(srch'.mult, srch.mult[1] * Nc, srch.mult[2] * n_cluster)
          IN /\ srch'.mult_prev = srch.mult
             /\ srch'.Nc_prev = Nc
             /\ IF srch.Nc_prev = 0 \/ Nc = srch.Nc_prev THEN proportional
                ELSE IF SecantNum(srch, Nc) * SecantDen(srch, Nc) <= 0 THEN proportional
                ELSE Equals(srch'.mult, SecantNum(srch, Nc), SecantDen(srch, Nc))]_vars

\* the search has just taken a secant step: the multiplier is not the
\* previous one scaled by the previous count over the target
C21_Witness ==
    /\ pc = "loop"
    /\ srch.active
    /\ srch.i >= 2
    /\ srch.Nc_prev # 0
    /\ srch.mult_prev # <<1, 1>>
    /\ ~Equals(srch.mult, srch.mult_prev[1] * srch.Nc_prev, srch.mult_prev[2] * n_cluster)

\* the search has used up its budget without an accepted attempt
Exhausted == srch.active /\ srch.i >= SearchMaxIter /\ ~srch.finished
\* the members of a list
Range(f) == {f[i] : i \in 1..Len(f)}

\* C22: the search starts an attempt only below the budget of attempts, each
\* attempt counts once, converged or not, and runs at most max_iter rounds;
\* a started create_clusters always gets back to its caller; and when the
\* budget is used up without an accepted attempt the call goes on to the
\* sort and returns, without an exception, the reordered result of the last
\* attempt.
C22_SearchTerminates ==
    /\ [][AttemptStep => srch.i < SearchMaxIter /\ srch'.i = srch.i]_vars
    /\ [][(pc = "eval" /\ pc' = "loop") => srch'.i = srch.i + 1]_vars
    /\ [][RoundStep => alg.q < alg.max_iter]_vars
    /\ [][(pc = "loop" /\ Exhausted) => pc' = "sort" /\ clusters' = clusters]_vars
    /\ [][(pc = "sort" /\ Exhausted) =>
             /\ pc' = "idle"
             /\ lastpass' = [call |-> "create", err |-> "none", accepted |-> FALSE]
             /\ Range(clusters'.exemplars) = Range(LastFit.exemplars)
             /\ clusters'.n_cluster = LastFit.n_clusters
             /\ clusters'.wcss = LastFit.wcss]_vars
    /\ (call = "create") ~> (pc = "idle")

\* create_clusters has returned from a search that used its whole budget
\* without an accepted attempt
C22_Witness ==
    /\ Ended("create")
    /\ ~lastpass.accepted
    /\ "exemplars" \in DOMAIN clusters
    /\ passes = 1

\* ---------------------------------------------------------------- C23
\* the day each column of the feature vector of the group starting on d1
\* refers to
RowDays(d1) ==
    Row(GroupDays(d1, MetricNames[1], ndays))
        \o Row(GroupDays(d1, MetricNames[2], ndays))
        \o Row(GroupDays(d1, MetricNames[3], ndays))
InYear(d) == d >= 0 /\ d <= NDaysYear - 1
Built == data # <<>>

\* C23: for every ndays in 1..363 there are floor(363/ndays) interior groups,
\* every day an interior group refers to (its own days, the day before, the
\* day after) lies in 0..364, so no entry of the feature matrix is the
\* sentinel; an entry of data_first or data_last is the sentinel exactly when
\* its day lies outside 0..364.
C23_SentinelOnlyOutsideYear ==
    Built =>
        /\ n_group = 363 \div ndays
        /\ \A g \in Groups :
              LET days == RowDays(1 + (g - 1) * ndays)
              IN /\ Len(data[g]) = Len(days)
                 /\ \A j \in 1..Len(days) :
                       InYear(days[j]) /\ data[g][j] # Sentinel
        /\ LET days == RowDays(0)
           IN \A j \in 1..Len(days) : (data_first[j] = Sentinel) <=> ~InYear(days[j])
        /\ LET days == RowDays(ndays * n_group + 1)
           IN \A j \in 1..Len(days) : (data_last[j] = Sentinel) <=> ~InYear(days[j])

\* two groups of 181 days: the last vector starts on day 363 and runs out of
\* the year on its third day
C23_Witness ==
    /\ Built
    /\ ndays = 181
    /\ n_group = 2
    /\ data_first[ndays + 1] = Sentinel
    /\ data_last[2] # Sentinel
    /\ data_last[3] = Sentinel
    /\ data_last[ndays + 1] # Sentinel

\* ---------------------------------------------------------------- C24
\* a reconstruction has returned and no boundary assignment existed
FallbackCall ==
    /\ annual.active
    /\ (index_first < 0 \/ index_last < 0)
\* the year as the claim describes it: day 0 is the average of days 1..5, every
\* trailing day the average of the 5 days before the first of them
FallbackClaimed(full, nexclude) ==
    LET h1 == NDaysYear - nexclude
    IN [day \in 1..NDaysYear |->
           IF day = 1 THEN SumDays(full, 1, Navg + 1) \div Navg
           ELSE IF day - 1 >= h1 THEN SumDays(full, h1 - Navg, h1) \div Navg
           ELSE full[day]]

\* C24: without a boundary assignment the reconstruction sets day 0 to the
\* hour-of-day average of days 1..5 and every one of the 364 - n_group*ndays
\* trailing days to the hour-of-day average of the 5 interior days before
\* them.
C24_FallbackAverages ==
    FallbackCall =>
        LET pm == clusters.partition_matrix
            full == Interior(annual.input, pm, sim_start_days, ndays)
        IN annual.out
               = AsType(Row(FallbackClaimed(full, 364 - Len(pm) * ndays)), annual.dtype)

\* ---------------------------------------------------------------- C25
\* calculate_metrics has merged mappings the caller supplied, both non-empty
MergedUserSettings ==
    /\ lastpass.call = "calculate_metrics"
    /\ ~use_default_weights
    /\ DOMAIN lastpass.given.weights # {}
    /\ DOMAIN lastpass.given.divisions # {}

\* C25: with use_default_weights = False and non-empty user weights and
\* divisions, after the merge every key of weights is a key of divisions and
\* of bounds, and the per-metric lookups do not raise KeyError.
C25_MergedKeysComplete ==
    MergedUserSettings =>
        /\ \A key \in DOMAIN weights : key \in DOMAIN divisions /\ key \in DefaultKeys
        /\ err # "KeyError"

\* ---------------------------------------------------------------- C26
\* a heuristic was asked for a cluster of the current cluster set, with the
\* start days set from it
SocCall(fn) ==
    /\ schedule.soc.fn = fn
    /\ "exemplars" \in DOMAIN clusters
    /\ sim_start_days = SimStartDays(clusters, ndays)
    /\ schedule.soc.clusterid < clusters.n_cluster

\* C26: after the pipeline has run, csp_soc_heuristic(k, solar_multiple)
\* returns 10 without a solar multiple, else 5 for a poor previous day (daily
\* average DNI of day max(0, sim_start_days[k] - 2) below 6.0) or a solar
\* multiple below 1.5, else 10 below 2.0, else 20; battery_soc_heuristic(k)
\* returns 0.
C26_SocHeuristics ==
    /\ SocCall("battery") =>
          schedule.soc.out.raised = "none" /\ schedule.soc.out.initial_soc = 0
    /\ SocCall("csp") =>
          /\ schedule.soc.out.raised = "none"
          /\ schedule.soc.solar_multiple = 0 => schedule.soc.out.initial_soc = 10
          /\ schedule.soc.solar_multiple # 0 => schedule.soc.out.initial_soc \in {5, 10, 20}

\* ---------------------------------------------------------------- C27
\* a clustering pass has returned normally and nothing has started since
PassEnded == Ended("form") \/ Ended("create")
\* the start days, boundary clusters and adjusted weights of the given
\* cluster set
StagesFollow(c) ==
    /\ sim_start_days # <<>> => sim_start_days = SimStartDays(c, ndays)
    /\ index_first >= 0 =>
          /\ index_first = NearestCluster(data_first, c.means)
          /\ index_last = NearestCluster(data_last, c.means)
          /\ "weights_adjusted" \in DOMAIN c
          /\ c.weights_adjusted
                 = WeightsAdjusted(c, n_group, ndays, index_first, index_last)

\* C27: every clustering pass, for any n_group >= 1, leaves a cluster set in
\* self.clusters, and the start days, boundary clusters and adjusted weights
\* the later stages use are those of the cluster set of the latest pass.
C27_LatestClusterSet ==
    /\ PassEnded => "exemplars" \in DOMAIN clusters
    /\ "exemplars" \in DOMAIN clusters => StagesFollow(clusters)

\* ---------------------------------------------------------------- C28
\* a pass has stored the result of fit_predict
Fitted == PassEnded /\ "exemplars" \in DOMAIN clusters /\ fits # <<>>
ClusterIds(c) == {c.index[g] : g \in 1..Len(c.index)}

\* C28: after fit_predict, also for feature matrices with duplicate rows,
\* every exemplar is assigned to its own cluster, so every count is at least
\* 1, every weight is positive and n_clusters is the number of distinct
\* cluster ids in cluster_index.
C28_ExemplarInOwnCluster ==
    Fitted =>
        /\ \A k \in 1..Len(LastFit.exemplars) :
              LastFit.cluster_index[LastFit.exemplars[k] + 1] = k - 1
        /\ \A k \in 1..clusters.n_cluster :
              clusters.count[k] >= 1 /\ clusters.weights[k][1] > 0
        /\ clusters.n_cluster = Cardinality(ClusterIds(clusters))

\* ---------------------------------------------------------------- C29
\* the step in which create_clusters returns from a search
SearchReturnStep ==
    /\ pc = "sort"
    /\ srch.active
    /\ pc' = "idle"
    /\ err' = "none"

\* C29: when create_clusters returns, afp_damping is the value it had when
\* create_clusters was called, whatever attempts converged, also when the
\* iteration budget ends on an attempt that did not converge.
C29_DampingRestored ==
    [][SearchReturnStep => afp_damping' = srch.damping_original]_vars

\* ---------------------------------------------------------------- C30
\* a converged attempt outside the tolerance is about to take the secant
\* branch of line 395
SecantBranch ==
    /\ pc = "eval"
    /\ srch.active
    /\ "converged" \in DOMAIN clusters
    /\ clusters.converged
    /\ ~Accepted(clusters.n_cluster, n_cluster, afp_enforce_Ncluster_tol)
    /\ ~(srch.Nc_prev = 0 \/ clusters.n_cluster = srch.Nc_prev)

\* C30: throughout the search the preference multiplier is strictly positive,
\* and whenever the secant branch is taken the current and previous
\* multipliers differ and the current and previous cluster counts differ:
\* neither division of the secant step divides by zero.
C30_NoZeroDivision ==
    /\ srch.active =>
          /\ srch.mult[1] > 0 /\ srch.mult[2] > 0
          /\ afp_preference_mult[1] > 0 /\ afp_preference_mult[2] > 0
    /\ SecantBranch =>
          /\ srch.mult # srch.mult_prev
          /\ clusters.n_cluster # srch.Nc_prev
          /\ FracSub(srch.mult, srch.mult_prev)[1] # 0
    /\ err # "ZeroDivisionError"

\* the secant branch is about to be taken: two converged attempts with
\* different cluster counts and different multipliers
C30_Witness ==
    /\ SecantBranch
    /\ srch.i >= 1
    /\ srch.Nc_prev >= 1
    /\ clusters.n_cluster >= 1
    /\ srch.mult # <<1, 1>>

====
